---------------------------- MODULE Spec2Model ----------------------------
(***************************************************************************)
(* Durable Layered Index (tkhdse/DLI): the router that places queries in   *)
(* bins by cosine similarity, the bin that batches them behind one worker  *)
(* goroutine, and the query's capacity-1 result channel.                   *)
(*                                                                         *)
(* The specifications share the variables:                                 *)
(*   Spec       the router of rb/ (DurableLayeredIndex) with the bins it   *)
(*              creates (package main Bin) and concurrent Query and Close  *)
(*              callers;                                                   *)
(*   BinSpec    one bin driven directly (AddQuery, Shutdown), for the two  *)
(*              Bin implementations of the repository: package main        *)
(*              ("rb") and internal/durable_layered_index ("index");       *)
(*              BinFairSpec and BinSelectFairSpec add a scheduled worker,  *)
(*              BinSizeSpec calls of SetBatchSize, BinTuneSpec calls of    *)
(*              SetWaitTime as well;                                       *)
(*   SlotSpec   the query's result channel driven as its unit tests do,    *)
(*              WaitSpec the same with a waiter and its context;           *)
(*   TableSpec  the router's two tables under its lock, FrameSpec the      *)
(*              same with GetStats, Close and the bins' workers;           *)
(*   LockSpec   the router with each Lock and RLock that may wait as a     *)
(*              step of its own;                                           *)
(*   ScanSpec   the scan of addQueryToBin as a function;                   *)
(*   ClientSpec InitEmbeddingClient and NewQuery.                          *)
(*                                                                         *)
(* Critical sections of one mutex are single steps.  A Go select with      *)
(* several ready cases is a nondeterministic choice among them.  A panic   *)
(* in any goroutine ends the process: `panicked` records it and no step    *)
(* follows.  Time is abstract: an armed timer may fire at any moment.      *)
(***************************************************************************)
EXTENDS Integers, Sequences, FiniteSets, TLC

\* ----- bounds of the model
NumCallers == 3
NumClosers == 1
NumShutdownCallers == 2
NumCancellable == 1
MaxBinsInput == 2
MaxBatchInput == 2
MaxSlotOps == 4
MaxSetCalls == 1
NumSizeCallers == 2
MaxScanBins == 3
NumFrameCallers == 2
NumInitCallers == 3
NumDrainCallers == 2
MaxWaitInput == 2
NumLockCallers == 2

\* ----- program constants
DefaultBatchSize == 6
DefaultWaitTime == 500
ResultChCap == 1
FlushChCap == 1
Scale == 100

Callers == 1..NumCallers
Closers == 1..NumClosers
ShutdownCallers == 1..NumShutdownCallers
\* The caller of SetBatchSize keeps its locals after those of the Shutdown
\* callers.
Setter == NumShutdownCallers + 1

\* Embeddings the embedding service may return (dimension 2 stands for 384).
Embeddings == {<<1, 0>>, <<0, 1>>}
\* groupingThreshold values handed to the constructor, in hundredths.
Thresholds == {90}

VARIABLES
    maxBinsPerIndex,    \* DurableLayeredIndex.maxBinsPerIndex
    groupingThreshold,  \* DurableLayeredIndex.groupingThreshold (hundredths)
    binVectors,         \* DurableLayeredIndex.binVectors
    bins,               \* DurableLayeredIndex.bins: the Bin objects, by index
    q,                  \* per caller: its Query object and the caller's locals
    cl,                 \* per closer: the locals of its Close / Shutdown call
    panicked,           \* "none", or the panic that ended the process
    slotLog,            \* SlotSpec: the SetResult / receive events per query
    globals             \* the package variables of query.go: embeddingClient,
                        \* clientOnce and clientErr

vars == <<maxBinsPerIndex, groupingThreshold, binVectors, bins, q, cl,
          panicked, slotLog, globals>>

\* ----- the embedding client (rb/query.go)
\* The package variables as declared: no client, no error, a fresh Once.
\* runs is history: how often the function handed to clientOnce.Do has run.
FreshGlobals ==
    [embeddingClient |-> "nil", clientErr |-> "nil", clientOnce |-> "new",
     runs |-> 0]

\* The package variables after an InitEmbeddingClient that succeeded, as main
\* leaves them before it builds the router.
InitializedGlobals ==
    [embeddingClient |-> "client", clientErr |-> "nil", clientOnce |-> "done",
     runs |-> 1]

\* ----- results
Answer(id) == [kind |-> "answer", of |-> id]
LLMError(id) == [kind |-> "ERROR calling Gemini", of |-> id]
BatchError(id) == [kind |-> "batch query error", of |-> id]
MissingResult(id) == [kind |-> "no result returned for query", of |-> id]

\* ----- similarity (fixed point, hundredths)
Dot(a, b) == IF Len(a) = 0 THEN 0
             ELSE LET f[i \in 0..Len(a)] ==
                        IF i = 0 THEN 0 ELSE f[i - 1] + a[i] * b[i]
                  IN f[Len(a)]

\* math.Sqrt of a small non-negative integer, in hundredths.
SqrtScaled(n) ==
    CHOOSE r \in 0..(Scale * (n + 1)) :
        r * r <= n * Scale * Scale /\ (r + 1) * (r + 1) > n * Scale * Scale

cosineSimilarity(a, b) ==
    IF Len(a) # Len(b) THEN 0
    ELSE LET dotProduct == Dot(a, b)
             normA == Dot(a, a)
             normB == Dot(b, b)
         IN IF normA = 0 \/ normB = 0 THEN 0
            ELSE (dotProduct * Scale * Scale * Scale)
                     \div (SqrtScaled(normA) * SqrtScaled(normB))

\* ----- Query (rb/query.go)
\* Not the program's SetResult: a send that replaces the value of a full
\* channel.  The single-shot property C3 must fail with it.
SetResult_overwrite(ch, result) ==
    IF Len(ch) < ResultChCap THEN Append(ch, result) ELSE <<result>>

\* Not the program's SetResult: a send on a channel without a buffer and
\* without a receiver, which the default case drops.  C15 must fail with it.
SetResult_lost(ch, result) == ch

SetResult(ch, result) ==
    IF Len(ch) < ResultChCap THEN Append(ch, result) ELSE ch

\* A caller before its call: no Query object yet, locals unset.
IdleCaller ==
    [pc |-> "idle", Embedding |-> <<>>, ResultCh |-> <<>>,
     numBins |-> 0, bestSimilarity |-> 0, canCreateNewBin |-> FALSE,
     binIdx |-> 0, queueSize |-> 0, route |-> "none", ret |-> "none"]

\* A caller whose call returned `ret`: its Query object and locals are gone.
Returned(ret) == [IdleCaller EXCEPT !.pc = "done", !.ret = ret]

\* A caller in GetResult: of its Query object only the result channel is
\* used from here on, and none of the locals of addQueryToBin.
Waiting(ch) == [IdleCaller EXCEPT !.pc = "await", !.ResultCh = ch]

IdleCloser == [pc |-> "idle", n |-> 0, i |-> 0, ret |-> "none"]

\* ----- Bin
NewBin(kind, maxBatchSize, maxWaitTime, traced) ==
    [kind |-> kind,
     queue |-> <<>>,
     maxBatchSize |-> maxBatchSize,
     maxWaitTime |-> maxWaitTime,
     flushCh |-> 0,
     shutdownCh |-> "open",
     shutdown |-> FALSE,
     timer |-> "armed",
     wpc |-> "select",
     trig |-> "none",
     batch |-> <<>>,
     i |-> 0,
     results |-> <<>>,
     err |-> FALSE,
     \* history, not read by the program: the flushes in progress (batches
     \* taken from the queue and not yet delivered to the end) and, kept for
     \* a traced bin only, the appends and deliveries
     flushing |-> 0,
     \* history: the durations the running timer may have been started with,
     \* and, between the swap of the queue and the reset of the timer, the
     \* values of maxWaitTime that the reset may read
     armedFor |-> {maxWaitTime},
     waitSeen |-> {},
     traced |-> traced,
     enqLog |-> <<>>,
     delivLog |-> <<>>,
     preLatch |-> {}]

BinIds == 1..Len(bins)

\* Not the program's triggerFlush: one that sends nothing.  C17 must fail
\* with it.
triggerFlush_none(bin) == bin

\* triggerFlush / signalFlush: a non-blocking send on the capacity-1 channel.
triggerFlush(bin) ==
    IF bin.flushCh < FlushChCap THEN [bin EXCEPT !.flushCh = @ + 1] ELSE bin

\* Not the program's send: a plain send on the flush channel, which waits
\* until the channel has room.  C33 must fail with it.
SignalReady_needsRoom(bin) == bin.flushCh < FlushChCap

\* Whether triggerFlush / signalFlush can complete: its select has a default
\* case, so it can, whatever the channel holds and whatever the worker does.
SignalReady(bin) == TRUE

\* Shutdown has begun: the flag of the index Bin, the closed channel of both.
Latched(bin) == bin.shutdown \/ bin.shutdownCh = "closed"

\* Not the program's processBatch: one that unlocks b.mu when it returns
\* (defer), so that the mutex is held over the downstream call and the
\* deliveries.  C21 must fail with it.
MuLocked_acrossCall(bin) == bin.wpc \in {"call", "deliver"}

\* Whether b.mu is held between two steps.  Every critical section of b.mu
\* is one step: processBatch unlocks after the swap of the queue, before the
\* downstream call, and AddQuery unlocks before it signals.
MuLocked(bin) == FALSE

\* The queue append of AddQuery, under b.mu.
AddQuery_append(bin, id) ==
    [bin EXCEPT !.queue = Append(@, id),
                !.enqLog = IF bin.traced THEN Append(@, id) ELSE @,
                !.preLatch = IF bin.traced /\ ~Latched(bin)
                             THEN @ \cup {id} ELSE @]

shouldFlush(bin) == Len(bin.queue) >= bin.maxBatchSize



\* ----- the bin's worker goroutine (batchLoop), shared by the two packages
ReadyTriggers(bin) ==
    {t \in {"shutdown", "flush", "timer"} :
        \/ t = "shutdown" /\ bin.shutdownCh = "closed"
        \/ t = "flush" /\ bin.flushCh > 0
        \/ t = "timer" /\ bin.timer = "fired"}

\* Not the program's loop: one whose flush case leaves the timer alone, so
\* that an expiry that is pending stays in timer.C.  C31 must fail with it.
Selected_noDrain(bin, t) ==
    CASE t = "shutdown" -> [bin EXCEPT !.wpc = "process", !.trig = t]
      [] t = "flush" -> [bin EXCEPT !.wpc = "process", !.trig = t,
                                    !.flushCh = @ - 1]
      [] t = "timer" -> [bin EXCEPT !.wpc = "process", !.trig = t,
                                    !.timer = "stopped"]

\* The case of the select that was taken: the flush case receives the signal,
\* stops the timer and drains its channel; the timer case receives the expiry.
Selected(bin, t) ==
    CASE t = "shutdown" -> [bin EXCEPT !.wpc = "process", !.trig = t]
      [] t = "flush" -> [bin EXCEPT !.wpc = "process", !.trig = t,
                                    !.flushCh = @ - 1, !.timer = "stopped"]
      [] t = "timer" -> [bin EXCEPT !.wpc = "process", !.trig = t,
                                    !.timer = "stopped"]

\* Not the program's loop: one that does not reset its timer after a flush.
\* C18 must fail with it.
loopEpilogue_noReset(bin) ==
    [bin EXCEPT !.wpc = IF bin.trig = "shutdown" THEN "exited" ELSE "select",
                !.timer = "stopped", !.trig = "none",
                !.batch = <<>>, !.i = 0, !.results = <<>>, !.err = FALSE]

\* The values timer.Reset(b.maxWaitTime) may read.  The worker of
\* internal/durable_layered_index reads under batchSizeMu, the lock of the
\* writer: the value in force.  The worker of package main reads without a
\* lock what SetWaitTime writes under b.mu: the value in force when the
\* worker last held b.mu (at the swap of the queue), or one written since.
ResetDurations(bin) ==
    IF bin.kind = "rb" THEN bin.waitSeen \cup {bin.maxWaitTime}
    ELSE {bin.maxWaitTime}

\* After processBatch returns: the shutdown case returns (wg.Done, timer.Stop),
\* the other two reset the timer and go round the loop.
loopEpilogue(bin) ==
    IF bin.trig = "shutdown"
    THEN [bin EXCEPT !.wpc = "exited", !.timer = "stopped", !.trig = "none",
                     !.batch = <<>>, !.i = 0, !.results = <<>>, !.err = FALSE,
                     !.waitSeen = {}]
    ELSE [bin EXCEPT !.wpc = "select", !.timer = "armed", !.trig = "none",
                     !.batch = <<>>, !.i = 0, !.results = <<>>, !.err = FALSE,
                     !.armedFor = ResetDurations(bin), !.waitSeen = {}]

\* Not the program's processBatch: one that leaves the rest of the flush to
\* a goroutine of its own and returns to the loop.  C20 must fail with it.
takeBatch_async(bin) ==
    [bin EXCEPT !.batch = bin.queue, !.queue = <<>>,
                !.flushing = @ + (IF Len(bin.queue) = 0 THEN 0 ELSE 1),
                !.wpc = IF bin.trig = "shutdown" THEN "exited" ELSE "select",
                !.timer = IF bin.trig = "shutdown" THEN "stopped" ELSE "armed",
                !.trig = "none"]

\* Not the program's processBatch: one without the check for an empty batch,
\* which goes on to the downstream call.  C32 must fail with it.
takeBatch_callEmpty(bin) ==
    [bin EXCEPT !.batch = bin.queue, !.queue = <<>>,
                !.waitSeen = {bin.maxWaitTime},
                !.wpc = "call", !.flushing = @ + 1]

\* Not the program's processBatch: one that takes the queue as its batch and
\* leaves it in place.  C34 must fail with it.
takeBatch_keepQueue(bin) ==
    LET taken == [bin EXCEPT !.batch = bin.queue,
                             !.waitSeen = {bin.maxWaitTime}]
    IN IF Len(taken.batch) = 0 THEN loopEpilogue(taken)
       ELSE [taken EXCEPT !.wpc = "call", !.flushing = @ + 1]

\* processBatch, first part: take the queue under b.mu and leave a fresh one;
\* an empty batch returns at once.
takeBatch(bin) ==
    LET taken == [bin EXCEPT !.batch = bin.queue, !.queue = <<>>,
                             !.waitSeen = {bin.maxWaitTime}]
    IN IF Len(taken.batch) = 0 THEN loopEpilogue(taken)
       ELSE [taken EXCEPT !.wpc = "call", !.flushing = @ + 1]

\* The part of the batch taken that the delivery loop has still to go
\* through: all of it during the downstream call, from position i on during
\* the loop.
Undelivered(bin) ==
    IF bin.wpc = "deliver" THEN SubSeq(bin.batch, bin.i, Len(bin.batch))
    ELSE bin.batch

\* Not the program's loop: one that hands every query the first result.
\* C35 must fail with it.
resultFor_first(bin, i) ==
    IF bin.err THEN BatchError(bin.batch[i])
    ELSE IF i <= Len(bin.results) THEN bin.results[1]
    ELSE MissingResult(bin.batch[i])

\* What the worker hands to the query at position i of its batch.
resultFor(bin, i) ==
    IF bin.err THEN BatchError(bin.batch[i])
    ELSE IF i <= Len(bin.results) THEN bin.results[i]
    ELSE MissingResult(bin.batch[i])

\* Not the program's loop: one that walks the batch from its end.  The FIFO
\* property C9 must fail with it.
nextQuery_backwards(bin) == bin.batch[Len(bin.batch) + 1 - bin.i]

\* The query the delivery loop is at: `for i, q := range batch`.
nextQuery(bin) == bin.batch[bin.i]

\* processBatch, the delivery loop: one SetResult per step, in batch order.
deliverNext(bin) ==
    LET done == [bin EXCEPT !.delivLog = IF bin.traced
                                         THEN Append(@, nextQuery(bin)) ELSE @,
                            !.i = @ + 1]
    IN IF bin.i >= Len(bin.batch)
       THEN loopEpilogue([done EXCEPT !.flushing = @ - 1])
       ELSE done

\* The runtime fires the armed timer: a value is put in timer.C.
TimerFire(b) ==
    /\ bins[b].timer = "armed"
    /\ bins[b].wpc = "select"
    /\ bins' = [bins EXCEPT ![b].timer = "fired"]
    /\ UNCHANGED <<maxBinsPerIndex, groupingThreshold, binVectors, q, cl,
                   panicked, slotLog, globals>>

batchLoop_select(b) ==
    /\ bins[b].wpc = "select"
    /\ \E t \in ReadyTriggers(bins[b]) :
           bins' = [bins EXCEPT ![b] = Selected(@, t)]
    /\ UNCHANGED <<maxBinsPerIndex, groupingThreshold, binVectors, q, cl,
                   panicked, slotLog, globals>>

processBatch_swap(b) ==
    /\ bins[b].wpc = "process"
    /\ bins' = [bins EXCEPT ![b] = takeBatch(@)]
    /\ UNCHANGED <<maxBinsPerIndex, groupingThreshold, binVectors, q, cl,
                   panicked, slotLog, globals>>

\* The timer case as one step, for a bin that nobody signals: the timer
\* fires, the select receives the expiry and processBatch takes the queue.
\* (The receive touches the timer only, so the steps in between commute with
\* every other goroutine's.)
batchLoop_onTimer(b) ==
    /\ bins[b].wpc = "select"
    /\ bins[b].timer = "armed"
    /\ bins' = [bins EXCEPT ![b] =
                  takeBatch(Selected([@ EXCEPT !.timer = "fired"], "timer"))]
    /\ UNCHANGED <<maxBinsPerIndex, groupingThreshold, binVectors, q, cl,
                   panicked, slotLog, globals>>

\* The shutdown case as one step: the select sees the closed channel and
\* processBatch takes the queue.
batchLoop_onShutdown(b) ==
    /\ bins[b].wpc = "select"
    /\ bins[b].shutdownCh = "closed"
    /\ bins' = [bins EXCEPT ![b] = takeBatch(Selected(@, "shutdown"))]
    /\ UNCHANGED <<maxBinsPerIndex, groupingThreshold, binVectors, q, cl,
                   panicked, slotLog, globals>>

\* batchVectorDBQuery of package main returns: per text, a Pinecone query and
\* an LLM call whose error becomes the result "ERROR calling Gemini" (here for
\* the texts at the positions in failing).
withResults(bin, failing) ==
    [bin EXCEPT !.wpc = "deliver", !.i = 1,
                !.results = [j \in 1..Len(bin.batch) |->
                               IF j \in failing THEN LLMError(bin.batch[j])
                               ELSE Answer(bin.batch[j])]]

batchVectorDBQuery(b) ==
    /\ bins[b].kind = "rb"
    /\ bins[b].wpc = "call"
    /\ \E failing \in SUBSET (1..Len(bins[b].batch)) :
           bins' = [bins EXCEPT ![b] = withResults(@, failing)]
    /\ UNCHANGED <<maxBinsPerIndex, groupingThreshold, binVectors, q, cl,
                   panicked, slotLog, globals>>

\* batchVectorDBQuery drops the error of client.Query: res is then nil and
\* res.Matches dereferences it.
batchVectorDBQuery_panic(b) ==
    /\ bins[b].kind = "rb"
    /\ bins[b].wpc = "call"
    /\ panicked' = "nil pointer dereference"
    /\ UNCHANGED <<maxBinsPerIndex, groupingThreshold, binVectors, bins, q, cl,
                   slotLog, globals>>

\* The whole delivery loop from position i on: <<bin, channels>> after it.
\* Each SetResult is a non-blocking send on a channel that only the query's
\* own caller receives from, so the loop is one step for a bin whose
\* deliveries nobody orders.
RECURSIVE deliverAll(_, _)
deliverAll(bin, chans) ==
    IF bin.wpc # "deliver" THEN <<bin, chans>>
    ELSE deliverAll(deliverNext(bin),
                    [chans EXCEPT ![nextQuery(bin)] =
                        SetResult(@, resultFor(bin, bin.i))])

\* The downstream call returns and processBatch delivers the whole batch.
processBatch_flush(b) ==
    /\ bins[b].kind = "rb"
    /\ bins[b].wpc = "call"
    /\ \E failing \in SUBSET (1..Len(bins[b].batch)) :
           LET after == deliverAll(withResults(bins[b], failing),
                                   [c \in Callers |-> q[c].ResultCh])
           IN /\ bins' = [bins EXCEPT ![b] = after[1]]
              /\ q' = [c \in Callers |-> [q[c] EXCEPT !.ResultCh = after[2][c]]]
    /\ UNCHANGED <<maxBinsPerIndex, groupingThreshold, binVectors, cl,
                   panicked, slotLog, globals>>

\* Not the program's send: one on a channel without a buffer and without a
\* default case, which waits for the receiver.  C16 must fail with it.
SetResultReady_needsReader(caller) == caller.pc = "await"

\* Whether SetResult can complete: its select has a default case, so it can,
\* whatever the channel holds and whatever the query's caller is doing.
SetResultReady(caller) == TRUE

processBatch_deliver(b) ==
    /\ bins[b].wpc = "deliver"
    /\ SetResultReady(q[nextQuery(bins[b])])
    /\ LET id == nextQuery(bins[b])
       IN q' = [q EXCEPT ![id].ResultCh =
                   SetResult(@, resultFor(bins[b], bins[b].i))]
    /\ bins' = [bins EXCEPT ![b] = deliverNext(@)]
    /\ UNCHANGED <<maxBinsPerIndex, groupingThreshold, binVectors, cl,
                   panicked, slotLog, globals>>

\* ----- DurableLayeredIndex (rb/dli.go)
\* Not the program's addQueryToBin: one that leaves the RUnlock of its scan
\* to a defer, so that it still holds the read lock when addBinWithVector
\* asks for the write lock.  C40 must fail with it.
RLockHolders_upgrade ==
    {c \in DOMAIN q : q[c].pc \in {"lock_wait", "rl_add", "trigger_rl"}}

\* The callers between RLock and RUnlock of dli.mu across steps: those in an
\* AddQuery made under the read lock, waiting for b.mu or sending the flush
\* signal.  (Every other read section is one step.)
RLockHolders == {c \in DOMAIN q : q[c].pc \in {"rl_add", "trigger_rl"}}

RLockHeld == RLockHolders # {}

\* Not the program's addBinWithVector: one that puts the new bin and its
\* vector at the front of the tables.  C22 must fail with it.
addBinWithVector_front(vector) ==
    /\ ~RLockHeld
    /\ binVectors' = <<vector>> \o binVectors
    /\ bins' = <<NewBin("rb", DefaultBatchSize, DefaultWaitTime, FALSE)>> \o bins

addBinWithVector(vector) ==
    /\ ~RLockHeld
    /\ binVectors' = Append(binVectors, vector)
    /\ bins' = Append(bins, NewBin("rb", DefaultBatchSize, DefaultWaitTime, FALSE))

\* The loop of the scan of addQueryToBin over the similarities it computes,
\* similarity[i] for bin i: <<bestBinIdx, bestSimilarity>> (indices from 1).
RECURSIVE ScanSimilarities(_, _, _, _)
ScanSimilarities(similarity, i, bestBinIdx, bestSimilarity) ==
    IF i > Len(similarity) THEN <<bestBinIdx, bestSimilarity>>
    ELSE IF similarity[i] > bestSimilarity
         THEN ScanSimilarities(similarity, i + 1, i, similarity[i])
         ELSE ScanSimilarities(similarity, i + 1, bestBinIdx, bestSimilarity)

\* The scan of addQueryToBin for the embedding e over binVectors.
ScanBins(e, i, bestBinIdx, bestSimilarity) ==
    ScanSimilarities([j \in 1..Len(binVectors) |->
                         cosineSimilarity(e, binVectors[j])],
                     i, bestBinIdx, bestSimilarity)

\* Callers are interchangeable: they start their calls in the order of their
\* numbers.
MayStart(c) == \A d \in Callers : d < c => q[d].pc # "idle"

\* Not the program's decision: one that still creates a bin when the table
\* holds maxBinsPerIndex bins.  C23 must fail with it.
scanned_createAtCap(caller) ==
    LET best == ScanBins(caller.Embedding, 1, 1, -Scale)
        canCreateNewBin == Len(bins) <= maxBinsPerIndex
    IN [caller EXCEPT !.bestSimilarity = best[2],
                      !.canCreateNewBin = canCreateNewBin,
                      !.numBins = Len(bins),
                      !.binIdx = best[1],
                      !.route = IF best[2] >= groupingThreshold THEN "similar"
                                ELSE IF canCreateNewBin THEN "none"
                                ELSE "fallback",
                      !.pc = IF best[2] >= groupingThreshold THEN "add"
                             ELSE IF canCreateNewBin THEN "create"
                             ELSE "add"]

\* The caller's locals after the scan of addQueryToBin under the read lock
\* and the decision that follows it.
scanned(caller) ==
    LET best == ScanBins(caller.Embedding, 1, 1, -Scale)
        canCreateNewBin == Len(bins) < maxBinsPerIndex
    IN [caller EXCEPT !.bestSimilarity = best[2],
                      !.canCreateNewBin = canCreateNewBin,
                      !.numBins = Len(bins),
                      !.binIdx = best[1],
                      !.route = IF best[2] >= groupingThreshold THEN "similar"
                                ELSE IF canCreateNewBin THEN "none"
                                ELSE "fallback",
                      !.pc = IF best[2] >= groupingThreshold THEN "add"
                             ELSE IF canCreateNewBin THEN "create"
                             ELSE "add"]

\* Query: NewQuery obtains the embedding, then addQueryToBin reads len(bins)
\* under the read lock.  When it reads zero the caller goes to create the
\* first bin.  Otherwise the value read is not used again and the scan, a
\* second read section, follows in the same step: only an append can come
\* between the two, and it leaves the first read non-zero.
Query_begin(c) ==
    /\ q[c].pc = "idle"
    /\ MayStart(c)
    /\ globals.embeddingClient # "nil"
    /\ \E e \in Embeddings :
          q' = [q EXCEPT ![c] =
                  IF Len(bins) = 0
                  THEN [@ EXCEPT !.Embedding = e, !.numBins = 0,
                                 !.pc = "first_bin"]
                  ELSE scanned([@ EXCEPT !.Embedding = e])]
    /\ UNCHANGED <<maxBinsPerIndex, groupingThreshold, binVectors, bins, cl,
                   panicked, slotLog, globals>>

\* The errors NewQuery can return: without a client the one of its first
\* check, with a client the one that wraps the error of GetEmbedding.
NewQueryErrors ==
    IF globals.embeddingClient = "nil"
    THEN {"embedding client not initialized"}
    ELSE {"failed to get embedding"}

\* fmt.Errorf("failed to create query: %w", err)
QueryError(err) ==
    IF err = "embedding client not initialized"
    THEN "failed to create query: embedding client not initialized"
    ELSE "failed to create query: failed to get embedding"

\* Not the program's Query: one that has a bin made for the query before it
\* looks at the error of NewQuery.  C27 must fail with it.
Query_NewQueryFails_addsBin(c) ==
    /\ q[c].pc = "idle"
    /\ MayStart(c)
    /\ \E err \in NewQueryErrors :
          q' = [q EXCEPT ![c] = Returned(QueryError(err))]
    /\ addBinWithVector(<<>>)
    /\ UNCHANGED <<maxBinsPerIndex, groupingThreshold, cl, panicked, slotLog,
                   globals>>

\* Query when NewQuery fails: it returns the error, wrapped.
Query_NewQueryFails(c) ==
    /\ q[c].pc = "idle"
    /\ MayStart(c)
    /\ \E err \in NewQueryErrors :
          q' = [q EXCEPT ![c] = Returned(QueryError(err))]
    /\ UNCHANGED <<maxBinsPerIndex, groupingThreshold, binVectors, bins, cl,
                   panicked, slotLog, globals>>

addQueryToBin_firstBin(c) ==
    /\ q[c].pc = "first_bin"
    /\ addBinWithVector(q[c].Embedding)
    /\ q' = [q EXCEPT ![c] =
               [@ EXCEPT !.binIdx = Len(bins) + 1, !.route = "first",
                         !.pc = "add_rl"]]
    /\ UNCHANGED <<maxBinsPerIndex, groupingThreshold, cl, panicked, slotLog, globals>>

addQueryToBin_create(c) ==
    /\ q[c].pc = "create"
    /\ addBinWithVector(q[c].Embedding)
    /\ q' = [q EXCEPT ![c] =
               [@ EXCEPT !.binIdx = Len(bins) + 1, !.route = "created",
                         !.pc = "add_rl"]]
    /\ UNCHANGED <<maxBinsPerIndex, groupingThreshold, cl, panicked, slotLog, globals>>

\* AddQuery of package main: append under b.mu; the signal is a later step.
\* addQueryToBin drops no error (AddQuery returns none) and returns nil, so the
\* caller goes on to GetResult.
AddQuery_on(c, b) ==
    LET after == AddQuery_append(bins[b], c)
    IN /\ ~MuLocked(bins[b])
       /\ bins' = [bins EXCEPT ![b] = after]
       /\ q' = [q EXCEPT ![c] =
                  IF shouldFlush(after)
                  THEN [@ EXCEPT !.binIdx = b,
                                 !.pc = IF q[c].pc \in {"add_rl", "rl_add"}
                                        THEN "trigger_rl" ELSE "trigger"]
                  ELSE Waiting(q[c].ResultCh)]
       /\ UNCHANGED <<maxBinsPerIndex, groupingThreshold, binVectors, cl,
                      panicked, slotLog, globals>>

AddQuery(c) ==
    /\ q[c].pc \in {"add", "add_rl"}
    /\ bins[q[c].binIdx].kind = "rb"
    /\ AddQuery_on(c, q[c].binIdx)

AddQuery_triggerFlush(c) ==
    /\ q[c].pc \in {"trigger", "trigger_rl"}
    /\ SignalReady(bins[q[c].binIdx])
    /\ bins' = [bins EXCEPT ![q[c].binIdx] = triggerFlush(@)]
    /\ q' = [q EXCEPT ![c] = Waiting(q[c].ResultCh)]
    /\ UNCHANGED <<maxBinsPerIndex, groupingThreshold, binVectors, cl,
                   panicked, slotLog, globals>>

\* Not the program's GetResult: one whose cancellation takes the query out
\* of the queues.  C13 must fail with it.
GetResult_dequeue(c) ==
    /\ q[c].pc = "await"
    /\ c <= NumCancellable
    /\ q' = [q EXCEPT ![c] = Returned("context error")]
    /\ bins' = [b \in BinIds |->
                  [bins[b] EXCEPT !.queue = SelectSeq(@, LAMBDA id : id # c)]]
    /\ UNCHANGED <<maxBinsPerIndex, groupingThreshold, binVectors, cl,
                   panicked, slotLog, globals>>

\* GetResult / WaitForResult: a select on the result channel and on
\* ctx.Done().  The context may end at any moment of the wait; the second
\* case is that it has ended and the select takes it.
GetResult(c) ==
    /\ q[c].pc = "await"
    /\ \/ /\ Len(q[c].ResultCh) > 0
          /\ q' = [q EXCEPT ![c] = Returned("result")]
       \/ /\ c <= NumCancellable
          /\ q' = [q EXCEPT ![c] = Returned("context error")]
    /\ UNCHANGED <<maxBinsPerIndex, groupingThreshold, binVectors, bins, cl,
                   panicked, slotLog, globals>>

\* Closers are interchangeable too.
MayClose(k) == \A j \in DOMAIN cl : j < k => cl[j].pc # "idle"

\* Close: copy the slice header of dli.bins under the read lock.
Close_snapshot(k) ==
    /\ cl[k].pc = "idle"
    /\ MayClose(k)
    /\ cl' = [cl EXCEPT ![k] =
                IF Len(bins) = 0
                THEN [@ EXCEPT !.pc = "done", !.ret = "nil"]
                ELSE [@ EXCEPT !.pc = "shutdown", !.n = Len(bins), !.i = 1]]
    /\ UNCHANGED <<maxBinsPerIndex, groupingThreshold, binVectors, bins, q,
                   panicked, slotLog, globals>>

\* Shutdown of package main: close(b.shutdownCh), which panics when closed.
Shutdown_close(k) ==
    /\ cl[k].pc = "shutdown"
    /\ bins[cl[k].i].kind = "rb"
    /\ IF bins[cl[k].i].shutdownCh = "closed"
       THEN /\ panicked' = "close of closed channel"
            /\ UNCHANGED <<bins, cl>>
       ELSE /\ bins' = [bins EXCEPT ![cl[k].i].shutdownCh = "closed"]
            /\ cl' = [cl EXCEPT ![k].pc = "wait"]
            /\ UNCHANGED panicked
    /\ UNCHANGED <<maxBinsPerIndex, groupingThreshold, binVectors, q, slotLog, globals>>

\* Not the program's Shutdown: one whose deadline also stops the worker where
\* it is.  C29 must fail with it.
Shutdown_wait_abandon(k) ==
    /\ cl[k].pc = "wait"
    /\ cl' = [cl EXCEPT ![k] = [@ EXCEPT !.pc = "done", !.ret = "ctx error"]]
    /\ bins' = [bins EXCEPT ![cl[k].i].wpc = "exited"]
    /\ UNCHANGED <<maxBinsPerIndex, groupingThreshold, binVectors, q,
                   panicked, slotLog, globals>>

\* Shutdown's select on done (closed once wg.Wait returns) and ctx.Done().
\* Close goes on to the next bin when Shutdown returned nil and returns at
\* once when it returned an error (the deadline passed during the wait).
Shutdown_wait(k) ==
    /\ cl[k].pc = "wait"
    /\ \/ /\ bins[cl[k].i].wpc = "exited"
          /\ cl' = [cl EXCEPT ![k] =
                      IF cl[k].i >= cl[k].n
                      THEN [@ EXCEPT !.pc = "done", !.ret = "nil"]
                      ELSE [@ EXCEPT !.pc = "shutdown", !.i = @ + 1]]
       \/ cl' = [cl EXCEPT ![k] = [@ EXCEPT !.pc = "done", !.ret = "ctx error"]]
    /\ UNCHANGED <<maxBinsPerIndex, groupingThreshold, binVectors, bins, q,
                   panicked, slotLog, globals>>

\* ----- the router with its callers
\* The router's bins flush at DefaultBatchSize queued queries, more than
\* NumCallers can queue, so no caller reaches AddQuery_triggerFlush here and
\* the worker's flush case is left to BinSpec; the delivery loop is one step
\* (processBatch_flush).
Init ==
    /\ maxBinsPerIndex \in 1..MaxBinsInput
    /\ groupingThreshold \in Thresholds
    /\ binVectors = <<>>
    /\ bins = <<>>
    /\ q = [c \in Callers |-> IdleCaller]
    /\ cl = [k \in Closers |-> IdleCloser]
    /\ panicked = "none"
    /\ slotLog = <<>>
    /\ globals = InitializedGlobals

Next ==
    /\ panicked = "none"
    /\ \/ \E c \in Callers :
            \/ Query_begin(c)
            \/ Query_NewQueryFails(c)
            \/ addQueryToBin_firstBin(c)
            \/ addQueryToBin_create(c)
            \/ AddQuery(c)
            \/ GetResult(c)
       \/ \E k \in DOMAIN cl :
            \/ Close_snapshot(k)
            \/ Shutdown_close(k)
            \/ Shutdown_wait(k)
       \/ \E b \in BinIds :
            \/ batchLoop_onTimer(b)
            \/ batchLoop_onShutdown(b)
            \/ batchVectorDBQuery_panic(b)
            \/ processBatch_flush(b)

Spec == Init /\ [][Next]_vars


\* ----- one bin driven directly
\* Bin.AddQuery of package main called on the bin, then GetResult.
Bin_AddQuery(c) ==
    /\ q[c].pc = "idle"
    /\ MayStart(c)
    /\ bins[1].kind = "rb"
    /\ AddQuery_on(c, 1)

\* Bin.AddQuery of internal/durable_layered_index: rejected once the flag is
\* set; otherwise append under b.mu, then maxBatchSize is read under
\* batchSizeMu (nothing writes it here) and compared with the length seen.
Index_AddQuery(c) ==
    /\ q[c].pc = "idle"
    /\ MayStart(c)
    /\ bins[1].kind = "index"
    /\ ~MuLocked(bins[1])
    /\ IF bins[1].shutdown
       THEN /\ q' = [q EXCEPT ![c] = Returned("bin is shut down")]
            /\ UNCHANGED <<maxBinsPerIndex, groupingThreshold, binVectors,
                           bins, cl, panicked, slotLog, globals>>
       ELSE AddQuery_on(c, 1)

\* Bin.Shutdown of internal/durable_layered_index, first part under b.mu: a
\* call that finds the flag set returns nil at once, the other sets it.
Index_Shutdown_latch(k) ==
    /\ cl[k].pc = "shutdown"
    /\ bins[cl[k].i].kind = "index"
    /\ IF bins[cl[k].i].shutdown
       THEN /\ cl' = [cl EXCEPT ![k] = [@ EXCEPT !.pc = "done", !.ret = "nil"]]
            /\ UNCHANGED bins
       ELSE /\ bins' = [bins EXCEPT ![cl[k].i].shutdown = TRUE]
            /\ cl' = [cl EXCEPT ![k].pc = "close"]
    /\ UNCHANGED <<maxBinsPerIndex, groupingThreshold, binVectors, q,
                   panicked, slotLog, globals>>

\* close(b.shutdownChan) by the call that set the flag.
Index_Shutdown_close(k) ==
    /\ cl[k].pc = "close"
    /\ bins' = [bins EXCEPT ![cl[k].i].shutdownCh = "closed"]
    /\ cl' = [cl EXCEPT ![k].pc = "wait"]
    /\ UNCHANGED <<maxBinsPerIndex, groupingThreshold, binVectors, q,
                   panicked, slotLog, globals>>

\* dbCollection.BatchQuery returns an error, or m results for the batch.
Index_BatchQuery(b) ==
    /\ bins[b].kind = "index"
    /\ bins[b].wpc = "call"
    /\ \/ bins' = [bins EXCEPT ![b] =
                     [@ EXCEPT !.wpc = "deliver", !.i = 1, !.err = TRUE]]
       \/ \E m \in 0..Len(bins[b].batch) :
             bins' = [bins EXCEPT ![b] =
                        [@ EXCEPT !.wpc = "deliver", !.i = 1,
                                  !.results = [j \in 1..m |->
                                                 Answer(bins[b].batch[j])]]]
    /\ UNCHANGED <<maxBinsPerIndex, groupingThreshold, binVectors, q, cl,
                   panicked, slotLog, globals>>

\* A bin of either package just constructed, with callers about to call
\* AddQuery and Shutdown on it.
BinInit ==
    /\ maxBinsPerIndex = 1
    /\ groupingThreshold \in Thresholds
    /\ binVectors = <<>>
    /\ \E kind \in {"rb", "index"}, maxBatchSize \in 1..MaxBatchInput :
          bins = <<NewBin(kind, maxBatchSize, DefaultWaitTime, TRUE)>>
    /\ q = [c \in Callers |-> IdleCaller]
    /\ cl = [k \in ShutdownCallers |->
               [IdleCloser EXCEPT !.pc = "shutdown", !.n = 1, !.i = 1]]
    /\ panicked = "none"
    /\ slotLog = <<>>
    /\ globals = InitializedGlobals

BinNext ==
    /\ panicked = "none"
    /\ \/ \E c \in Callers :
            \/ Bin_AddQuery(c)
            \/ Index_AddQuery(c)
            \/ AddQuery_triggerFlush(c)
            \/ GetResult(c)
       \/ \E k \in ShutdownCallers :
            \/ Shutdown_close(k)
            \/ Index_Shutdown_latch(k)
            \/ Index_Shutdown_close(k)
            \/ Shutdown_wait(k)
       \/ \E b \in BinIds :
            \/ TimerFire(b)
            \/ batchLoop_select(b)
            \/ processBatch_swap(b)
            \/ batchVectorDBQuery(b)
            \/ batchVectorDBQuery_panic(b)
            \/ Index_BatchQuery(b)
            \/ processBatch_deliver(b)

BinSpec == BinInit /\ [][BinNext]_vars

\* The bin with a worker that is scheduled and a timer that fires: the
\* goroutine takes each of its steps in the end, as long as the process
\* lives, and a downstream call returns.  Nothing is asked of the callers.
WorkerFair(b) ==
    /\ WF_vars(panicked = "none" /\ TimerFire(b))
    /\ WF_vars(panicked = "none" /\ batchLoop_select(b))
    /\ WF_vars(panicked = "none" /\ processBatch_swap(b))
    /\ WF_vars(panicked = "none" /\ batchVectorDBQuery(b))
    /\ WF_vars(panicked = "none" /\ Index_BatchQuery(b))
    /\ WF_vars(panicked = "none" /\ processBatch_deliver(b))

BinFairSpec == BinSpec /\ WorkerFair(1)

\* The step of batchLoop_select that takes the shutdown case.
batchLoop_select_shutdown(b) ==
    /\ bins[b].wpc = "select"
    /\ bins[b].shutdownCh = "closed"
    /\ bins' = [bins EXCEPT ![b] = Selected(@, "shutdown")]
    /\ UNCHANGED <<maxBinsPerIndex, groupingThreshold, binVectors, q, cl,
                   panicked, slotLog, globals>>

\* The select of the runtime picks among its ready cases at random, each
\* with the same chance: a case that is ready again and again is taken in
\* the end.  For the shutdown case, ready at every select once the channel
\* is closed:
\* The bin with NumDrainCallers callers of AddQuery.
BinDrainNext ==
    /\ BinNext
    /\ \A c \in Callers : c > NumDrainCallers => q'[c] = q[c]

BinSelectFairSpec ==
    /\ BinInit /\ [][BinDrainNext]_vars
    /\ WorkerFair(1)
    /\ SF_vars(panicked = "none" /\ batchLoop_select_shutdown(1))

\* ----- one bin with SetBatchSize called on it
\* Bin.AddQuery of internal/durable_layered_index in its two critical
\* sections, for a bin whose maxBatchSize may be written in between: the
\* append under b.mu, which keeps the length seen, ...
Index_AddQuery_append(c) ==
    /\ q[c].pc = "idle"
    /\ MayStart(c)
    /\ bins[1].kind = "index"
    /\ ~MuLocked(bins[1])
    /\ IF bins[1].shutdown
       THEN /\ q' = [q EXCEPT ![c] = Returned("bin is shut down")]
            /\ UNCHANGED bins
       ELSE /\ bins' = [bins EXCEPT ![1] = AddQuery_append(@, c)]
            /\ q' = [q EXCEPT ![c] =
                       [@ EXCEPT !.binIdx = 1,
                                 !.queueSize = Len(bins[1].queue) + 1,
                                 !.pc = "read_max"]]
    /\ UNCHANGED <<maxBinsPerIndex, groupingThreshold, binVectors, cl,
                   panicked, slotLog, globals>>

\* ... and the read of maxBatchSize under batchSizeMu with the comparison.
Index_AddQuery_compare(c) ==
    /\ q[c].pc = "read_max"
    /\ q' = [q EXCEPT ![c] =
               IF q[c].queueSize >= bins[1].maxBatchSize
               THEN [@ EXCEPT !.pc = "trigger"]
               ELSE Waiting(q[c].ResultCh)]
    /\ UNCHANGED <<maxBinsPerIndex, groupingThreshold, binVectors, bins, cl,
                   panicked, slotLog, globals>>

\* The condition under which SetBatchSize sends the flush signal: package
\* main asks for a queue that has reached a size that was lowered,
\* internal/durable_layered_index for a queue that has reached the size.
SetBatchSize_shouldFlush(kind, queueLen, size, oldSize) ==
    IF kind = "rb" THEN queueLen >= size /\ size < oldSize
    ELSE queueLen >= size

\* SetBatchSize of package main, all of it under b.mu.
SetBatchSize(size) ==
    /\ cl[Setter].pc = "set"
    /\ cl[Setter].i < MaxSetCalls
    /\ bins[1].kind = "rb"
    /\ ~MuLocked(bins[1])
    /\ LET oldSize == bins[1].maxBatchSize
           set == [bins[1] EXCEPT !.maxBatchSize = size]
       IN /\ SetBatchSize_shouldFlush("rb", Len(set.queue), size, oldSize)
               => SignalReady(set)
          /\ bins' = [bins EXCEPT ![1] =
                        IF SetBatchSize_shouldFlush("rb", Len(set.queue), size,
                                                    oldSize)
                        THEN triggerFlush(set) ELSE set]
    /\ cl' = [cl EXCEPT ![Setter] = [@ EXCEPT !.n = size, !.i = @ + 1]]
    /\ UNCHANGED <<maxBinsPerIndex, groupingThreshold, binVectors, q,
                   panicked, slotLog, globals>>

\* SetBatchSize of internal/durable_layered_index: the write under
\* batchSizeMu, ...
Index_SetBatchSize_set(size) ==
    /\ cl[Setter].pc = "set"
    /\ cl[Setter].i < MaxSetCalls
    /\ bins[1].kind = "index"
    /\ bins' = [bins EXCEPT ![1].maxBatchSize = size]
    /\ cl' = [cl EXCEPT ![Setter] = [@ EXCEPT !.pc = "check", !.n = size]]
    /\ UNCHANGED <<maxBinsPerIndex, groupingThreshold, binVectors, q,
                   panicked, slotLog, globals>>

\* ... the comparison of the queue's length under b.mu, ...
Index_SetBatchSize_check ==
    /\ cl[Setter].pc = "check"
    /\ ~MuLocked(bins[1])
    /\ cl' = [cl EXCEPT ![Setter] =
                IF SetBatchSize_shouldFlush("index", Len(bins[1].queue),
                                            cl[Setter].n, cl[Setter].n)
                THEN [@ EXCEPT !.pc = "signal"]
                ELSE [@ EXCEPT !.pc = "set", !.i = @ + 1]]
    /\ UNCHANGED <<maxBinsPerIndex, groupingThreshold, binVectors, bins, q,
                   panicked, slotLog, globals>>

\* ... and signalFlush.
Index_SetBatchSize_signal ==
    /\ cl[Setter].pc = "signal"
    /\ SignalReady(bins[1])
    /\ bins' = [bins EXCEPT ![1] = triggerFlush(@)]
    /\ cl' = [cl EXCEPT ![Setter] = [@ EXCEPT !.pc = "set", !.i = @ + 1]]
    /\ UNCHANGED <<maxBinsPerIndex, groupingThreshold, binVectors, q,
                   panicked, slotLog, globals>>

BinSizeInit ==
    /\ maxBinsPerIndex = 1
    /\ groupingThreshold \in Thresholds
    /\ binVectors = <<>>
    /\ \E kind \in {"rb", "index"}, maxBatchSize \in 1..MaxBatchInput :
          bins = <<NewBin(kind, maxBatchSize, DefaultWaitTime, TRUE)>>
    /\ q = [c \in Callers |-> IdleCaller]
    /\ cl = [k \in 1..Setter |->
               IF k = Setter THEN [IdleCloser EXCEPT !.pc = "set"]
               ELSE [IdleCloser EXCEPT !.pc = "shutdown", !.n = 1, !.i = 1]]
    /\ panicked = "none"
    /\ slotLog = <<>>
    /\ globals = InitializedGlobals

BinSizeNext ==
    /\ panicked = "none"
    /\ \/ \E c \in 1..NumSizeCallers :
            \/ Bin_AddQuery(c)
            \/ Index_AddQuery_append(c)
            \/ Index_AddQuery_compare(c)
            \/ AddQuery_triggerFlush(c)
            \/ GetResult(c)
       \/ \E k \in ShutdownCallers :
            \/ Shutdown_close(k)
            \/ Index_Shutdown_latch(k)
            \/ Index_Shutdown_close(k)
            \/ Shutdown_wait(k)
       \/ \E size \in 1..MaxBatchInput :
            \/ SetBatchSize(size)
            \/ Index_SetBatchSize_set(size)
       \/ Index_SetBatchSize_check
       \/ Index_SetBatchSize_signal
       \/ \E b \in BinIds :
            \/ TimerFire(b)
            \/ batchLoop_select(b)
            \/ processBatch_swap(b)
            \/ batchVectorDBQuery(b)
            \/ batchVectorDBQuery_panic(b)
            \/ Index_BatchQuery(b)
            \/ processBatch_deliver(b)

BinSizeSpec == BinSizeInit /\ [][BinSizeNext]_vars

\* ----- one bin with SetWaitTime and SetBatchSize called on it
\* The durations handed to SetWaitTime.
WaitTimes == {DefaultWaitTime \div d : d \in 1..MaxWaitInput}

\* SetWaitTime of package main, all of it under b.mu.
SetWaitTime(duration) ==
    /\ cl[Setter].pc = "set"
    /\ cl[Setter].i < MaxSetCalls
    /\ bins[1].kind = "rb"
    /\ ~MuLocked(bins[1])
    /\ bins' = [bins EXCEPT ![1] =
                  [@ EXCEPT !.maxWaitTime = duration,
                            !.waitSeen = IF @ = {} THEN @
                                         ELSE @ \cup {duration}]]
    /\ cl' = [cl EXCEPT ![Setter] =
                [@ EXCEPT !.n = duration, !.i = @ + 1,
                          !.ret = "SetWaitTime"]]
    /\ UNCHANGED <<maxBinsPerIndex, groupingThreshold, binVectors, q,
                   panicked, slotLog, globals>>

\* SetWaitTime of internal/durable_layered_index: the write under
\* batchSizeMu, ...
Index_SetWaitTime_set(duration) ==
    /\ cl[Setter].pc = "set"
    /\ cl[Setter].i < MaxSetCalls
    /\ bins[1].kind = "index"
    /\ bins' = [bins EXCEPT ![1].maxWaitTime = duration]
    /\ cl' = [cl EXCEPT ![Setter] =
                [@ EXCEPT !.pc = "wait_signal", !.n = duration,
                          !.ret = "SetWaitTime"]]
    /\ UNCHANGED <<maxBinsPerIndex, groupingThreshold, binVectors, q,
                   panicked, slotLog, globals>>

\* ... and signalFlush.
Index_SetWaitTime_signal ==
    /\ cl[Setter].pc = "wait_signal"
    /\ SignalReady(bins[1])
    /\ bins' = [bins EXCEPT ![1] = triggerFlush(@)]
    /\ cl' = [cl EXCEPT ![Setter] = [@ EXCEPT !.pc = "set", !.i = @ + 1]]
    /\ UNCHANGED <<maxBinsPerIndex, groupingThreshold, binVectors, q,
                   panicked, slotLog, globals>>

\* The bin of BinSizeSpec with a caller of either setter.
BinTuneNext ==
    /\ panicked = "none"
    /\ \/ \E c \in 1..NumSizeCallers :
            \/ Bin_AddQuery(c)
            \/ Index_AddQuery_append(c)
            \/ Index_AddQuery_compare(c)
            \/ AddQuery_triggerFlush(c)
            \/ GetResult(c)
       \/ \E k \in ShutdownCallers :
            \/ Shutdown_close(k)
            \/ Index_Shutdown_latch(k)
            \/ Index_Shutdown_close(k)
            \/ Shutdown_wait(k)
       \/ \E size \in 1..MaxBatchInput :
            \/ SetBatchSize(size)
            \/ Index_SetBatchSize_set(size)
       \/ Index_SetBatchSize_check
       \/ Index_SetBatchSize_signal
       \/ \E duration \in WaitTimes :
            \/ SetWaitTime(duration)
            \/ Index_SetWaitTime_set(duration)
       \/ Index_SetWaitTime_signal
       \/ \E b \in BinIds :
            \/ TimerFire(b)
            \/ batchLoop_select(b)
            \/ processBatch_swap(b)
            \/ batchVectorDBQuery(b)
            \/ batchVectorDBQuery_panic(b)
            \/ Index_BatchQuery(b)
            \/ processBatch_deliver(b)

BinTuneSpec == BinSizeInit /\ [][BinTuneNext]_vars

\* ----- the result channel driven as the unit tests of Query do
SlotResults == {Answer(1), LLMError(1), BatchError(1), MissingResult(1)}

Slot_SetResult(r) ==
    /\ Len(slotLog) < MaxSlotOps
    /\ q' = [q EXCEPT ![1].ResultCh = SetResult(@, r)]
    /\ slotLog' = Append(slotLog, [op |-> "deliver", v |-> r])
    /\ UNCHANGED <<maxBinsPerIndex, groupingThreshold, binVectors, bins, cl,
                   panicked, globals>>

\* GetResult with a context that is never done: the receive.
Slot_GetResult ==
    /\ Len(slotLog) < MaxSlotOps
    /\ Len(q[1].ResultCh) > 0
    /\ q' = [q EXCEPT ![1].ResultCh = Tail(@)]
    /\ slotLog' = Append(slotLog, [op |-> "await", v |-> Head(q[1].ResultCh)])
    /\ UNCHANGED <<maxBinsPerIndex, groupingThreshold, binVectors, bins, cl,
                   panicked, globals>>

SlotInit ==
    /\ maxBinsPerIndex = 1
    /\ groupingThreshold \in Thresholds
    /\ binVectors = <<>>
    /\ bins = <<>>
    /\ q = [c \in {1} |-> Waiting(<<>>)]
    /\ cl = <<>>
    /\ panicked = "none"
    /\ slotLog = <<>>
    /\ globals = InitializedGlobals

SlotNext ==
    \/ \E r \in SlotResults : Slot_SetResult(r)
    \/ Slot_GetResult

SlotSpec == SlotInit /\ [][SlotNext]_vars

\* ----- the router's table under its lock
\* addBinWithVector holds dli.mu.Lock over two appends; here they are two
\* steps, and every section that takes the lock waits while it is held.
\* Not the program's lock: one that is never seen as held, so that the state
\* between the two appends is open to readers.  C11 must fail with it.
WLock_unseen == FALSE

WLockHeld == \E c \in DOMAIN q : q[c].pc = "append_bin"

Table_Query_begin(c) == ~WLockHeld /\ Query_begin(c)

\* addBinWithVector, first append: the copy of the vector.
addBinWithVector_vector(c) ==
    /\ q[c].pc \in {"first_bin", "create"}
    /\ ~WLockHeld
    /\ ~RLockHeld
    /\ binVectors' = Append(binVectors, q[c].Embedding)
    /\ q' = [q EXCEPT ![c] =
               [@ EXCEPT !.route = IF q[c].pc = "first_bin"
                                   THEN "first" ELSE "created",
                         !.pc = "append_bin"]]
    /\ UNCHANGED <<maxBinsPerIndex, groupingThreshold, bins, cl, panicked,
                   slotLog, globals>>

\* addBinWithVector, second append: the new Bin; then Unlock and return of
\* len(dli.bins) - 1.
addBinWithVector_bin(c) ==
    /\ q[c].pc = "append_bin"
    /\ bins' = Append(bins, NewBin("rb", DefaultBatchSize, DefaultWaitTime, FALSE))
    /\ q' = [q EXCEPT ![c] =
               [@ EXCEPT !.binIdx = Len(bins) + 1, !.pc = "add_rl"]]
    /\ UNCHANGED <<maxBinsPerIndex, groupingThreshold, binVectors, cl,
                   panicked, slotLog, globals>>

Table_AddQuery(c) == ~WLockHeld /\ AddQuery(c)

\* GetStats: num_bins read under the read lock, by an observer that may call
\* it again and again.
GetStats(k) ==
    /\ ~WLockHeld
    /\ cl' = [cl EXCEPT ![k] = [@ EXCEPT !.n = Len(bins), !.ret = "stats"]]
    /\ UNCHANGED <<maxBinsPerIndex, groupingThreshold, binVectors, bins, q,
                   panicked, slotLog, globals>>

TableNext ==
    \/ \E c \in Callers :
         \/ Table_Query_begin(c)
         \/ Query_NewQueryFails(c)
         \/ addBinWithVector_vector(c)
         \/ addBinWithVector_bin(c)
         \/ Table_AddQuery(c)
    \/ \E k \in DOMAIN cl : GetStats(k)

TableSpec == Init /\ [][TableNext]_vars

\* ----- the scan of addQueryToBin as a function of the similarities
\* What cosineSimilarity returns for the bins of a table, in hundredths.  Its
\* float32 arithmetic rounds: for opposite vectors the quotient comes out at
\* -1, or one or two units in the last place below it (-1.0000001,
\* -1.0000002); the unit is a hundredth here, as for
\* cosineSimilarity(<<1, 1>>, <<-1, -1>>) above.
Similarities == {-Scale - 2, -Scale - 1, -Scale, 0, Scale}

\* A caller about to scan a table for which cosineSimilarity returns these.
Scanning(similarity) ==
    [pc |-> "scan", similarity |-> similarity, binIdx |-> 0,
     bestSimilarity |-> 0]

ScanInit ==
    /\ maxBinsPerIndex = MaxScanBins
    /\ groupingThreshold \in Thresholds
    /\ binVectors = <<>>
    /\ bins = <<>>
    /\ \E n \in 1..MaxScanBins : \E similarity \in [1..n -> Similarities] :
          q = [c \in {1} |-> Scanning(similarity)]
    /\ cl = <<>>
    /\ panicked = "none"
    /\ slotLog = <<>>
    /\ globals = InitializedGlobals

\* The scan runs: bestBinIdx := 0, bestSimilarity := -1.0, then the loop.
Scan_run ==
    /\ q[1].pc = "scan"
    /\ LET best == ScanSimilarities(q[1].similarity, 1, 1, -Scale)
       IN q' = [q EXCEPT ![1] = [@ EXCEPT !.pc = "scanned",
                                          !.binIdx = best[1],
                                          !.bestSimilarity = best[2]]]
    /\ UNCHANGED <<maxBinsPerIndex, groupingThreshold, binVectors, bins, cl,
                   panicked, slotLog, globals>>

ScanNext == Scan_run

ScanSpec == ScanInit /\ [][ScanNext]_vars

\* ----- the router's table under Query, GetStats and Close, with and
\* without an embedding client
\* The locals of the caller of GetStats come after those of the closers.
Observer == NumClosers + 1

\* Not the program's addBinWithVector: one that appends the caller's slice
\* itself, which the new entry of binVectors then shares with the query that
\* created the bin.  C25 must fail with it.
Aliased_shared(c) ==
    IF q[c].pc = "add_rl" THEN {q[c].binIdx} ELSE {Len(binVectors)}

\* The entries of binVectors that share their storage with the embedding of
\* c's query: none, addBinWithVector appends a copy (make, copy).
Aliased(c) == {}

\* The owner of the embedding slice writes to it after the slice was handed
\* to addBinWithVector.
MutateEmbedding(c) ==
    /\ q[c].pc \in {"append_bin", "add_rl"}
    /\ \E e \in Embeddings \ {q[c].Embedding} :
          /\ q' = [q EXCEPT ![c].Embedding = e]
          /\ binVectors' = [j \in 1..Len(binVectors) |->
                              IF j \in Aliased(c) THEN e ELSE binVectors[j]]
    /\ UNCHANGED <<maxBinsPerIndex, groupingThreshold, bins, cl, panicked,
                   slotLog, globals>>

Frame_Close_snapshot(k) == ~WLockHeld /\ Close_snapshot(k)

FrameInit ==
    /\ maxBinsPerIndex \in 1..MaxBinsInput
    /\ groupingThreshold \in Thresholds
    /\ binVectors = <<>>
    /\ bins = <<>>
    /\ q = [c \in Callers |-> IdleCaller]
    /\ cl = [k \in 1..Observer |-> IdleCloser]
    /\ panicked = "none"
    /\ slotLog = <<>>
    /\ globals \in {FreshGlobals, InitializedGlobals}

FrameNext ==
    /\ panicked = "none"
    /\ \/ \E c \in 1..NumFrameCallers :
            \/ Table_Query_begin(c)
            \/ Query_NewQueryFails(c)
            \/ addBinWithVector_vector(c)
            \/ addBinWithVector_bin(c)
            \/ MutateEmbedding(c)
            \/ Table_AddQuery(c)
            \/ GetResult(c)
       \/ GetStats(Observer)
       \/ \E k \in Closers :
            \/ Frame_Close_snapshot(k)
            \/ Shutdown_close(k)
            \/ Shutdown_wait(k)
       \/ \E b \in BinIds :
            \/ batchLoop_onTimer(b)
            \/ batchLoop_onShutdown(b)
            \/ batchVectorDBQuery_panic(b)
            \/ processBatch_flush(b)

FrameSpec == FrameInit /\ [][FrameNext]_vars

\* ----- the locks: dli.mu, b.mu and the wait for the worker's exit
\* Each Lock and RLock that can find its lock held is a step of its own.
\* The callers that have called dli.mu.Lock and wait for the readers to
\* leave.  From that call on RLock waits as well (sync.RWMutex).
WLockPending == {c \in DOMAIN q : q[c].pc = "lock_wait"}

\* Whether dli.mu.RLock returns at once.
RLockFree == ~WLockHeld /\ WLockPending = {}

Lock_Query_begin(c) == RLockFree /\ Query_begin(c)

\* addBinWithVector calls dli.mu.Lock.
addBinWithVector_Lock(c) ==
    /\ q[c].pc \in {"first_bin", "create"}
    /\ q' = [q EXCEPT ![c] =
               [@ EXCEPT !.route = IF q[c].pc = "first_bin"
                                   THEN "first" ELSE "created",
                         !.pc = "lock_wait"]]
    /\ UNCHANGED <<maxBinsPerIndex, groupingThreshold, binVectors, bins, cl,
                   panicked, slotLog, globals>>

\* Lock returns: no reader and no writer is inside; first append.
addBinWithVector_locked(c) ==
    /\ q[c].pc = "lock_wait"
    /\ ~WLockHeld
    /\ ~RLockHeld
    /\ binVectors' = Append(binVectors, q[c].Embedding)
    /\ q' = [q EXCEPT ![c].pc = "append_bin"]
    /\ UNCHANGED <<maxBinsPerIndex, groupingThreshold, bins, cl, panicked,
                   slotLog, globals>>

\* The RLock around dli.bins[binIdx].AddQuery returns.
addQueryToBin_RLock(c) ==
    /\ q[c].pc = "add_rl"
    /\ RLockFree
    /\ q' = [q EXCEPT ![c].pc = "rl_add"]
    /\ UNCHANGED <<maxBinsPerIndex, groupingThreshold, binVectors, bins, cl,
                   panicked, slotLog, globals>>

\* AddQuery on the bin chosen: under the read lock for a bin just created,
\* without it for selectedBin.  Its b.mu.Lock returns when b.mu is free.
Lock_AddQuery(c) ==
    /\ q[c].pc \in {"add", "rl_add"}
    /\ bins[q[c].binIdx].kind = "rb"
    /\ AddQuery_on(c, q[c].binIdx)

Lock_GetStats(k) == RLockFree /\ GetStats(k)

Lock_Close_snapshot(k) == RLockFree /\ Close_snapshot(k)

\* The tasks: callers of Query, the caller of Close, the bins' workers.
Tasks ==
    {<<"q", c>> : c \in Callers} \cup {<<"cl", k>> : k \in Closers}
        \cup {<<"w", b>> : b \in BinIds}

\* The tasks that hold what task t waits for: for a caller in dli.mu.Lock
\* the readers and the writer inside, for a caller in dli.mu.RLock the
\* writers inside or waiting, for a caller in b.mu.Lock of AddQuery and for
\* the worker in b.mu.Lock of processBatch the holder of b.mu, for the caller
\* of Shutdown in its wait the worker that has not exited.
Blockers(t) ==
    CASE t[1] = "q" ->
           LET c == t[2]
           IN CASE q[c].pc = "lock_wait" ->
                     {<<"q", d>> : d \in RLockHolders}
                        \cup {<<"q", d>> : d \in {e \in DOMAIN q :
                                                    q[e].pc = "append_bin"}}
                [] q[c].pc = "add_rl" ->
                     {<<"q", d>> : d \in WLockPending}
                        \cup {<<"q", d>> : d \in {e \in DOMAIN q :
                                                    q[e].pc = "append_bin"}}
                [] q[c].pc = "rl_add" ->
                     IF MuLocked(bins[q[c].binIdx])
                     THEN {<<"w", q[c].binIdx>>} ELSE {}
                [] OTHER -> {}
      [] t[1] = "cl" ->
           LET k == t[2]
           IN IF cl[k].pc = "wait" /\ bins[cl[k].i].wpc # "exited"
              THEN {<<"w", cl[k].i>>} ELSE {}
      [] t[1] = "w" ->
           LET b == t[2]
           IN IF bins[b].wpc = "process" /\ MuLocked(bins[b])
              THEN {<<"w", b>>} ELSE {}

\* The tasks that the tasks of S wait for, and those these wait for, ...
RECURSIVE WaitClosure(_)
WaitClosure(S) ==
    LET N == S \cup UNION {Blockers(u) : u \in S}
    IN IF N = S THEN S ELSE WaitClosure(N)

LockInit ==
    /\ maxBinsPerIndex \in 1..MaxBinsInput
    /\ groupingThreshold \in Thresholds
    /\ binVectors = <<>>
    /\ bins = <<>>
    /\ q = [c \in Callers |-> IdleCaller]
    /\ cl = [k \in 1..Setter |->
               IF k = Setter THEN [IdleCloser EXCEPT !.pc = "set"]
               ELSE IdleCloser]
    /\ panicked = "none"
    /\ slotLog = <<>>
    /\ globals = InitializedGlobals

LockNext ==
    /\ panicked = "none"
    /\ \/ \E c \in 1..NumLockCallers :
            \/ Lock_Query_begin(c)
            \/ addBinWithVector_Lock(c)
            \/ addBinWithVector_locked(c)
            \/ addBinWithVector_bin(c)
            \/ addQueryToBin_RLock(c)
            \/ Lock_AddQuery(c)
            \/ AddQuery_triggerFlush(c)
            \/ GetResult(c)
       \/ Lock_GetStats(Observer)
       \/ \E k \in Closers :
            \/ Lock_Close_snapshot(k)
            \/ Shutdown_close(k)
            \/ Shutdown_wait(k)
       \/ /\ Len(bins) >= 1
          /\ \/ \E size \in 1..MaxBatchInput : SetBatchSize(size)
             \/ \E duration \in WaitTimes : SetWaitTime(duration)
       \/ \E b \in BinIds :
            \/ batchLoop_onTimer(b)
            \/ batchLoop_select(b)
            \/ processBatch_swap(b)
            \/ batchVectorDBQuery_panic(b)
            \/ processBatch_flush(b)

LockSpec == LockInit /\ [][LockNext]_vars

\* ----- InitEmbeddingClient and NewQuery on the package variables
InitCallers == 1..NumInitCallers

\* Whether clientOnce.Do runs the function it is given: for the first call
\* only.
OnceIsNew(once) == once = "new"

\* InitEmbeddingClient, clientOnce.Do: the first call goes on to run the
\* function, a call that finds the Once done returns from Do at once, and a
\* call that finds it running waits in Do until it is done.
InitEmbeddingClient_Do(k) ==
    /\ cl[k].pc = "idle"
    /\ MayClose(k)
    /\ globals.clientOnce # "running"
    /\ IF OnceIsNew(globals.clientOnce)
       THEN /\ globals' = [globals EXCEPT !.clientOnce = "running"]
            /\ cl' = [cl EXCEPT ![k].pc = "connect"]
       ELSE /\ cl' = [cl EXCEPT ![k].pc = "return"]
            /\ UNCHANGED globals
    /\ UNCHANGED <<maxBinsPerIndex, groupingThreshold, binVectors, bins, q,
                   panicked, slotLog>>

\* The function handed to Do: embedding.NewClient returns a client and nil,
\* or nil and an error; both are assigned.
InitEmbeddingClient_connect(k) ==
    /\ cl[k].pc = "connect"
    /\ \E ok \in BOOLEAN :
          globals' = [globals EXCEPT
                        !.embeddingClient = IF ok THEN "client" ELSE "nil",
                        !.clientErr = IF ok THEN "nil"
                                      ELSE "failed to connect to embeddings service",
                        !.clientOnce = "done",
                        !.runs = @ + 1]
    /\ cl' = [cl EXCEPT ![k].pc = "return"]
    /\ UNCHANGED <<maxBinsPerIndex, groupingThreshold, binVectors, bins, q,
                   panicked, slotLog>>

\* return clientErr
InitEmbeddingClient_return(k) ==
    /\ cl[k].pc = "return"
    /\ cl' = [cl EXCEPT ![k] = [@ EXCEPT !.pc = "done", !.ret = globals.clientErr]]
    /\ UNCHANGED <<maxBinsPerIndex, groupingThreshold, binVectors, bins, q,
                   panicked, slotLog, globals>>

\* NewQuery: without a client it fails at once; with one, GetEmbedding
\* returns an embedding or an error.
NewQuery(c) ==
    /\ q[c].pc = "idle"
    /\ MayStart(c)
    /\ IF globals.embeddingClient = "nil"
       THEN q' = [q EXCEPT ![c] = Returned("embedding client not initialized")]
       ELSE \/ q' = [q EXCEPT ![c] = Returned("failed to get embedding")]
            \/ \E e \in Embeddings :
                  q' = [q EXCEPT ![c] =
                          [@ EXCEPT !.pc = "created", !.Embedding = e]]
    /\ UNCHANGED <<maxBinsPerIndex, groupingThreshold, binVectors, bins, cl,
                   panicked, slotLog, globals>>

ClientInit ==
    /\ maxBinsPerIndex = 1
    /\ groupingThreshold \in Thresholds
    /\ binVectors = <<>>
    /\ bins = <<>>
    /\ q = [c \in Callers |-> IdleCaller]
    /\ cl = [k \in InitCallers |-> IdleCloser]
    /\ panicked = "none"
    /\ slotLog = <<>>
    /\ globals = FreshGlobals

ClientNext ==
    \/ \E k \in InitCallers :
         \/ InitEmbeddingClient_Do(k)
         \/ InitEmbeddingClient_connect(k)
         \/ InitEmbeddingClient_return(k)
    \/ \E c \in Callers : NewQuery(c)

ClientSpec == ClientInit /\ [][ClientNext]_vars

\* ----- one query and its waiter, as the unit tests of WaitForResult drive it
\* The errors a finished context reports.
CtxErrors == {[kind |-> "context canceled", of |-> 0],
              [kind |-> "context deadline exceeded", of |-> 0]}

\* The context of the query is done once it was cancelled or timed out.
CtxDone(log) == \E i \in 1..Len(log) : log[i].op = "cancel"

\* Not the program's ctx.Err(): always Canceled.  C14 must fail with it.
CtxErr_canceled(log) == [kind |-> "context canceled", of |-> 0]

\* q.ctx.Err() of a context that is done.
CtxErr(log) == log[CHOOSE i \in 1..Len(log) : log[i].op = "cancel"].v

\* cancel() is called, or the deadline of the context passes.
Wait_Cancel(e) ==
    /\ Len(slotLog) < MaxSlotOps
    /\ ~CtxDone(slotLog)
    /\ slotLog' = Append(slotLog, [op |-> "cancel", v |-> e])
    /\ UNCHANGED <<maxBinsPerIndex, groupingThreshold, binVectors, bins, q, cl,
                   panicked, globals>>

\* The reader arrives: WaitForResult is called and blocks in its select.
WaitForResult_call ==
    /\ Len(slotLog) < MaxSlotOps
    /\ q[1].pc = "idle"
    /\ q' = [q EXCEPT ![1].pc = "await"]
    /\ slotLog' = Append(slotLog, [op |-> "call", v |-> [kind |-> "none", of |-> 0]])
    /\ UNCHANGED <<maxBinsPerIndex, groupingThreshold, binVectors, bins, cl,
                   panicked, globals>>

\* WaitForResult returns: the select takes the result, or the done context
\* (either, when both are ready).
WaitForResult_return ==
    /\ Len(slotLog) < MaxSlotOps
    /\ q[1].pc = "await"
    /\ \/ /\ Len(q[1].ResultCh) > 0
          /\ q' = [q EXCEPT ![1].ResultCh = Tail(@), ![1].pc = "done"]
          /\ slotLog' = Append(slotLog,
                               [op |-> "await", v |-> Head(q[1].ResultCh)])
       \/ /\ CtxDone(slotLog)
          /\ q' = [q EXCEPT ![1].pc = "done"]
          /\ slotLog' = Append(slotLog,
                               [op |-> "await_error", v |-> CtxErr(slotLog)])
    /\ UNCHANGED <<maxBinsPerIndex, groupingThreshold, binVectors, bins, cl,
                   panicked, globals>>

WaitInit ==
    /\ maxBinsPerIndex = 1
    /\ groupingThreshold \in Thresholds
    /\ binVectors = <<>>
    /\ bins = <<>>
    /\ q = [c \in {1} |-> IdleCaller]
    /\ cl = <<>>
    /\ panicked = "none"
    /\ slotLog = <<>>
    /\ globals = InitializedGlobals

WaitNext ==
    \/ \E r \in SlotResults : Slot_SetResult(r)
    \/ \E e \in CtxErrors : Wait_Cancel(e)
    \/ WaitForResult_call
    \/ WaitForResult_return

WaitSpec == WaitInit /\ [][WaitNext]_vars

\* ======================= properties =======================

\* C1: every query accepted by Router.Query is eventually delivered a result
\* or its waiter returns the context's error.  Stated on states: a caller
\* that waits on an empty result channel has its query in the queue or the
\* batch of a bin whose worker is still running, so that a delivery can
\* still come.
C1_AcceptedQueryServed ==
    \A c \in DOMAIN q :
        (panicked = "none" /\ q[c].pc = "await" /\ q[c].ResultCh = <<>>)
        => \E b \in BinIds :
              /\ bins[b].wpc # "exited"
              /\ \/ \E j \in 1..Len(bins[b].queue) : bins[b].queue[j] = c
                 \/ \E j \in 1..Len(bins[b].batch) : bins[b].batch[j] = c

\* C2: in every reachable state len(bins) <= maxBins.
C2_BinsWithinMax == Len(bins) <= maxBinsPerIndex

\* C3: single-shot result channel: every value read is the first one
\* delivered since the previous read (deliver x; deliver y; await yields x),
\* the channel never holds more than one result, and it is empty after a
\* read.
C3_SingleShot ==
    /\ Len(q[1].ResultCh) <= 1
    /\ \A i \in 1..Len(slotLog) :
          slotLog[i].op = "await" =>
             \E d \in 1..(i - 1) :
                /\ slotLog[d].op = "deliver"
                /\ slotLog[d].v = slotLog[i].v
                /\ \/ d = 1
                   \/ slotLog[d - 1].op = "await"
                /\ \A j \in (d + 1)..(i - 1) : slotLog[j].op = "deliver"
    /\ (Len(slotLog) > 0 /\ slotLog[Len(slotLog)].op = "await")
          => q[1].ResultCh = <<>>

\* C3, its case: two different results were delivered, then one read.
C3_Witness ==
    /\ Len(slotLog) = 3
    /\ slotLog[1].op = "deliver" /\ slotLog[2].op = "deliver"
    /\ slotLog[1].v # slotLog[2].v
    /\ slotLog[3].op = "await"
    /\ slotLog[3].v = slotLog[1].v
    /\ q[1].ResultCh = <<>>

\* C4: when Router.Close returns, with or without an error, the worker of
\* every bin then in the table has exited.
C4_NoWorkerAfterClose ==
    [][\A k \in DOMAIN cl :
          (cl[k].pc # "done" /\ cl'[k].pc = "done")
          => \A b \in 1..Len(bins') : bins'[b].wpc = "exited"]_vars

\* C5: every query enqueued before the bin's shutdown latch was set has been
\* delivered once the worker has exited, and once a Shutdown call has
\* returned nil.
C5_ShutdownDrain ==
    \A b \in BinIds :
       LET delivered == {bins[b].delivLog[j] : j \in 1..Len(bins[b].delivLog)}
       IN /\ bins[b].wpc = "exited" => bins[b].preLatch \subseteq delivered
          /\ \A k \in DOMAIN cl :
                (cl[k].pc = "done" /\ cl[k].ret = "nil" /\ cl[k].i = b)
                => bins[b].preLatch \subseteq delivered

\* C6: after a bin has been shut down no AddQuery appends to its queue: every
\* query ever appended was appended before the latch, and the queue of an
\* exited worker is empty.
C6_RejectedAfterShutdown ==
    \A b \in BinIds :
       /\ \A j \in 1..Len(bins[b].enqLog) :
             bins[b].enqLog[j] \in bins[b].preLatch
       /\ bins[b].wpc = "exited" => bins[b].queue = <<>>

\* C7: a Router.Query whose selected bin is already shut down when it
\* submits returns the failure BinClosed instead of going on to wait.
C7_QueryFailsOnClosedBin ==
    [][\A c \in DOMAIN q :
          (/\ q[c].pc \in {"add", "add_rl"}
           /\ bins[q[c].binIdx].shutdownCh = "closed"
           /\ q'[c].pc # q[c].pc)
          => (q'[c].pc = "done" /\ q'[c].ret = "bin closed")]_vars

\* C8: a second call of Bin.Shutdown, after or during the first, does not
\* crash, and a call that returned nil leaves the latch set.
C8_ShutdownIdempotent ==
    /\ panicked # "close of closed channel"
    /\ \A k \in DOMAIN cl :
          (cl[k].pc = "done" /\ cl[k].ret = "nil")
          => Latched(bins[cl[k].i])

\* C9: the worker's SetResult calls follow the order of the appends to the
\* queue: the deliveries made so far are the first of the appends, in their
\* order, so within every batch delivery order is insertion order.
C9_FIFO ==
    \A b \in BinIds :
       /\ Len(bins[b].delivLog) <= Len(bins[b].enqLog)
       /\ \A j \in 1..Len(bins[b].delivLog) :
             bins[b].delivLog[j] = bins[b].enqLog[j]

\* C9, its case: a batch of several queries, the last of them being
\* delivered after the others.
C9_Witness ==
    \E b \in BinIds :
       /\ bins[b].wpc = "deliver"
       /\ Len(bins[b].batch) >= 2
       /\ bins[b].i = Len(bins[b].batch)
       /\ Len(bins[b].delivLog) >= 1

\* C10: a query about to be placed in a bin with representative r has
\* cosine(e, r) >= groupingThreshold, or r is a copy of e in a bin created
\* for it, or the table held maxBins bins when it was routed and the bin is
\* the most similar of them.
C10_RoutingInvariant ==
    \A c \in DOMAIN q :
       q[c].pc \in {"add", "add_rl"} =>
          LET e == q[c].Embedding
              r == binVectors[q[c].binIdx]
          IN \/ cosineSimilarity(e, r) >= groupingThreshold
             \/ q[c].route \in {"first", "created"} /\ r = e
             \/ /\ q[c].numBins = maxBinsPerIndex
                /\ \A j \in 1..q[c].numBins :
                      cosineSimilarity(e, binVectors[j])
                         <= cosineSimilarity(e, r)

\* C11: whenever the router's lock can be taken, len(bins) = len(binVectors);
\* the two tables change only in steps of the holder of the write lock, and
\* what GetStats reports as num_bins is the length of both.
C11_TablesAligned ==
    /\ [](~WLockHeld => Len(bins) = Len(binVectors))
    /\ [][(Len(bins') # Len(bins) \/ Len(binVectors') # Len(binVectors))
            => (WLockHeld \/ WLockHeld')]_vars
    /\ [][\A k \in DOMAIN cl :
            cl'[k] # cl[k] => cl'[k].n = Len(binVectors)]_vars

\* C11, its case: an observer has seen two bins and a writer is between its
\* two appends.
C11_Witness ==
    /\ WLockHeld
    /\ Len(binVectors) = Len(bins) + 1
    /\ \E k \in DOMAIN cl : cl[k].ret = "stats" /\ cl[k].n >= 2

\* C12: Close calls Shutdown on every bin of its snapshot, also after an
\* earlier Shutdown failed: when Close returns, every such bin has had its
\* shutdown channel closed.
C12_CloseShutsDownAll ==
    [][\A k \in DOMAIN cl :
          (cl[k].pc # "done" /\ cl'[k].pc = "done")
          => \A b \in 1..cl[k].n : bins'[b].shutdownCh = "closed"]_vars

\* C13: cancelling the submitter's context makes its waiter return the
\* context's error and touches no bin: every query ever appended to a bin is
\* in its queue, in the batch its worker is flushing, or delivered, whatever
\* became of its waiter.
C13_CancelLeavesQuery ==
    /\ [](\A b \in BinIds : \A j \in 1..Len(bins[b].enqLog) :
            LET id == bins[b].enqLog[j]
            IN \/ \E n \in 1..Len(bins[b].queue) : bins[b].queue[n] = id
               \/ \E n \in 1..Len(bins[b].batch) : bins[b].batch[n] = id
               \/ \E n \in 1..Len(bins[b].delivLog) : bins[b].delivLog[n] = id)
    /\ [][\A c \in DOMAIN q :
            (q[c].pc = "await" /\ q'[c].ret = "context error") => bins' = bins]_vars

\* C13, its case: the waiter of a query has returned the context's error and
\* the query is in the batch of a downstream call in progress.
C13_Witness ==
    \E c \in DOMAIN q : \E b \in BinIds :
       /\ q[c].ret = "context error"
       /\ bins[b].wpc = "call"
       /\ \E n \in 1..Len(bins[b].batch) : bins[b].batch[n] = c

\* C14: an await that returns an error returns exactly the error of its
\* context, which is done by then, and no result; an await that returns a
\* result returns one that was delivered.  While no result was delivered it
\* returns nothing else.
C14_AwaitCancelled ==
    \A i \in 1..Len(slotLog) :
       /\ slotLog[i].op = "await_error" =>
             /\ slotLog[i].v \notin SlotResults
             /\ \E c \in 1..(i - 1) :
                   slotLog[c].op = "cancel" /\ slotLog[c].v = slotLog[i].v
       /\ slotLog[i].op = "await" =>
             \E d \in 1..(i - 1) :
                slotLog[d].op = "deliver" /\ slotLog[d].v = slotLog[i].v

\* C14, its case: the deadline passed with nothing delivered and the blocked
\* await returned DeadlineExceeded.
C14_Witness ==
    /\ Len(slotLog) = 3
    /\ slotLog[1].op = "call"
    /\ slotLog[2].op = "cancel"
    /\ slotLog[2].v.kind = "context deadline exceeded"
    /\ slotLog[3].op = "await_error"
    /\ q[1].pc = "done"
    /\ q[1].ResultCh = <<>>

\* C15: while the context is not cancelled, a delivered result is kept for
\* the reader whether or not the reader has arrived: until the await returns
\* the channel holds the first result delivered, and the await returns that
\* result and no error.
C15_ResultNotLost ==
    ~CtxDone(slotLog) =>
       \A d \in 1..Len(slotLog) :
          (slotLog[d].op = "deliver"
             /\ \A j \in 1..(d - 1) : slotLog[j].op # "deliver") =>
                /\ (\A j \in 1..Len(slotLog) : slotLog[j].op # "await")
                      => q[1].ResultCh = <<slotLog[d].v>>
                /\ \A j \in 1..Len(slotLog) :
                      slotLog[j].op # "await_error"
                /\ \A j \in 1..Len(slotLog) :
                      slotLog[j].op = "await" => slotLog[j].v = slotLog[d].v

\* C15, its case: the result was delivered before WaitForResult was called,
\* and the call returned it.
C15_Witness ==
    /\ Len(slotLog) = 3
    /\ slotLog[1].op = "deliver"
    /\ slotLog[2].op = "call"
    /\ slotLog[3].op = "await"
    /\ slotLog[3].v = slotLog[1].v
    /\ q[1].pc = "done"

C17_FlushBySize ==
    /\ [](\A b \in BinIds :
            (/\ bins[b].wpc = "select"
             /\ Len(bins[b].queue) >= bins[b].maxBatchSize
             /\ \A c \in DOMAIN q :
                   ~(q[c].pc \in {"trigger", "trigger_rl"} /\ q[c].binIdx = b))
            => bins[b].flushCh = 1)
    /\ [][\A c \in DOMAIN q :
            (q[c].pc \in {"trigger", "trigger_rl"} /\ q'[c].pc = "await")
            => bins'[q[c].binIdx].flushCh = 1]_vars

\* C17, its case: maxBatchSize queries (more than one) were submitted and the
\* worker, woken by the flush signal, makes one downstream call with all of
\* them.
C17_Witness ==
    \E b \in BinIds :
       /\ bins[b].maxBatchSize >= 2
       /\ bins[b].wpc = "call"
       /\ bins[b].trig = "flush"
       /\ Len(bins[b].batch) = bins[b].maxBatchSize
       /\ bins[b].delivLog = <<>>

\* C18: with a fair worker, a query enqueued in a bin that was not shut down
\* is in the end delivered a result, however short the queue stays: the
\* timer fires and the worker flushes.  Stated for all such queries at once:
\* again and again every query enqueued so far before the latch has been
\* delivered (or the process has crashed).
C18_FlushByTime ==
    []<>(\/ \A c \in bins[1].preLatch :
               \E n \in 1..Len(bins[1].delivLog) : bins[1].delivLog[n] = c
         \/ panicked # "none")

\* C18, its case: the timer fired on a live bin whose queue was shorter than
\* maxBatchSize, and the worker is flushing it.
C18_Witness ==
    \E b \in BinIds :
       /\ bins[b].wpc = "call"
       /\ bins[b].trig = "timer"
       /\ Len(bins[b].batch) < bins[b].maxBatchSize
       /\ ~Latched(bins[b])

\* C19: a downstream call that fails does not tear down the bin, and gives
\* every query of its batch a failure result: no crash comes of it, a batch
\* whose call returned an error delivers that error to each query, and no
\* batch mixes failure results with answers.
C19_DownstreamFailure ==
    /\ panicked # "nil pointer dereference"
    /\ \A b \in BinIds :
          bins[b].wpc = "deliver" =>
             LET failed(i) == resultFor(bins[b], i).kind
                                 \in {"batch query error", "ERROR calling Gemini"}
             IN /\ bins[b].err => \A i \in 1..Len(bins[b].batch) : failed(i)
                /\ (\E i \in 1..Len(bins[b].batch) : failed(i))
                      => \A i \in 1..Len(bins[b].batch) : failed(i)

\* C20: each bin has one worker, which lives until shutdown, and at most one
\* flush is in progress in a bin at any moment (and then it is the worker's),
\* whatever signals, timer expiries, SetBatchSize calls and submissions come
\* together.
C20_SingleWorker ==
    \A b \in BinIds :
       /\ bins[b].flushing <= 1
       /\ (bins[b].flushing = 1) <=> (bins[b].wpc \in {"call", "deliver"})
       /\ bins[b].wpc = "exited" => bins[b].shutdownCh = "closed"

\* C20, its case: a flush is in progress while a flush signal is pending,
\* further queries are queued and SetBatchSize has been called.
C20_Witness ==
    \E b \in BinIds :
       /\ bins[b].wpc = "call"
       /\ bins[b].flushCh = 1
       /\ Len(bins[b].queue) >= 1
       /\ cl[Setter].i >= 1

C22_NewBinCreation ==
    /\ [][\A c \in DOMAIN q :
            (/\ q[c].pc = "idle" /\ q'[c].pc \notin {"idle", "done"}
             /\ Len(bins) > 0
             /\ Len(bins) < maxBinsPerIndex
             /\ \A j \in 1..Len(binVectors) :
                   cosineSimilarity(q'[c].Embedding, binVectors[j])
                      < groupingThreshold)
            => q'[c].pc = "create"]_vars
    /\ [][\A c \in DOMAIN q :
            (q[c].pc = "create" /\ q'[c].pc # "create")
            => /\ Len(bins') = Len(bins) + 1
               /\ Len(binVectors') = Len(binVectors) + 1
               /\ \A j \in 1..Len(bins) :
                     bins'[j] = bins[j] /\ binVectors'[j] = binVectors[j]
               /\ q'[c].binIdx = Len(bins')
               /\ binVectors'[q'[c].binIdx] = q[c].Embedding
               /\ bins'[q'[c].binIdx].queue = <<>>]_vars
    /\ [][\A c \in DOMAIN q :
            (q[c].pc = "add_rl" /\ q[c].route = "created" /\ q'[c].pc # "add_rl")
            => /\ binVectors[q[c].binIdx] = q[c].Embedding
               /\ bins'[q[c].binIdx].queue
                     = Append(bins[q[c].binIdx].queue, c)
               /\ Len(bins') = Len(bins)]_vars

\* C22, its case: two orthogonal embeddings were submitted one after the
\* other; there are two bins, with the two embeddings as representatives, and
\* the second query is in the queue of the second.
C22_Witness ==
    /\ Len(bins) = 2
    /\ binVectors = << <<1, 0>>, <<0, 1>> >>
    /\ q[1].pc = "await"
    /\ q[2].pc = "await"
    /\ bins[1].queue = <<1>>
    /\ bins[2].queue = <<2>>
    /\ q[3].pc = "idle"

C24_FirstMatchArgmax ==
    q[1].pc = "scanned" =>
       LET similarity == q[1].similarity
           n == Len(similarity)
       IN /\ q[1].binIdx \in 1..n
          /\ \A j \in 1..n : similarity[j] <= similarity[q[1].binIdx]
          /\ \A j \in 1..(q[1].binIdx - 1) :
                similarity[j] < similarity[q[1].binIdx]

\* C25: the bin table only grows at its end.  No step of a Query, of
\* GetStats, of Close, of a bin's worker, or of the owner of an embedding
\* slice shortens a table or changes an existing entry of binVectors; a step
\* that appends leaves every existing bin as it is, and no step touches the
\* bins at two indices.
C25_AppendOnly ==
    [][/\ Len(binVectors') >= Len(binVectors)
       /\ Len(bins') >= Len(bins)
       /\ \A i \in 1..Len(binVectors) : binVectors'[i] = binVectors[i]
       /\ Len(bins') > Len(bins) => \A i \in 1..Len(bins) : bins'[i] = bins[i]
       /\ Cardinality({i \in 1..Len(bins) : bins'[i] # bins[i]}) <= 1]_vars

\* C25, its case: the embedding of a query was overwritten after a bin was
\* created for it; the bin keeps the vector it was created with, GetStats has
\* run and a Close has begun.
C25_Witness ==
    \E c \in DOMAIN q :
       /\ q[c].pc = "add_rl"
       /\ q[c].route = "created"
       /\ binVectors[q[c].binIdx] # q[c].Embedding
       /\ binVectors[1] # binVectors[2]
       /\ cl[Observer].ret = "stats"
       /\ cl[1].pc # "idle"

\* C26: initialization of the embedding client is idempotent and
\* failure-sticky: the function of the Once runs at most once for any number
\* of concurrent InitEmbeddingClient calls, every call returns the outcome of
\* that one run, and a Query creation that follows a failed initialization
\* fails with the error of the initialization.
C26_InitOnceSticky ==
    /\ [](globals.runs <= 1)
    /\ [](\A k \in DOMAIN cl :
            cl[k].pc = "done" =>
               /\ globals.clientOnce = "done"
               /\ cl[k].ret = globals.clientErr)
    /\ [][\A k \in DOMAIN cl :
            cl[k].pc = "done" => globals' = globals]_vars
    /\ [][\A c \in DOMAIN q :
            (/\ q[c].pc = "idle" /\ q'[c].pc # "idle"
             /\ globals.clientOnce = "done"
             /\ globals.clientErr # "nil")
            => (q'[c].pc = "done" /\ q'[c].ret = globals.clientErr)]_vars

\* C27: when the creation of the Query fails, for want of an embedding client
\* or by an error of the embedding call, Router.Query returns that error
\* (wrapped) and leaves the router as it was: no bin is created, and the
\* query is in no queue and no batch, then or later.
C27_CreationFailure ==
    /\ [][\A c \in DOMAIN q :
            (q[c].pc = "idle" /\ q'[c].pc # "idle"
               /\ globals.embeddingClient = "nil")
            => /\ q'[c].pc = "done"
               /\ q'[c].ret = QueryError("embedding client not initialized")
               /\ bins' = bins /\ binVectors' = binVectors]_vars
    /\ [][\A c \in DOMAIN q :
            (q[c].pc = "idle"
               /\ q'[c].ret = QueryError("failed to get embedding"))
            => /\ q'[c].pc = "done"
               /\ globals.embeddingClient # "nil"
               /\ bins' = bins /\ binVectors' = binVectors]_vars
    /\ [](\A c \in DOMAIN q :
            q[c].ret \in {QueryError("embedding client not initialized"),
                          QueryError("failed to get embedding")}
            => \A b \in BinIds :
                  /\ \A n \in 1..Len(bins[b].queue) : bins[b].queue[n] # c
                  /\ \A n \in 1..Len(bins[b].batch) : bins[b].batch[n] # c)

\* C27, its case: the embedding call failed for the second query while the
\* first waits in the bin created for it; the table still holds that one bin
\* and its queue that one query.
C27_Witness ==
    /\ q[2].pc = "done"
    /\ q[2].ret = QueryError("failed to get embedding")
    /\ q[1].pc = "await"
    /\ Len(bins) = 1
    /\ bins[1].queue = <<1>>

\* C28: SetBatchSize(n) publishes n as maxBatchSize, and a call with n lower
\* than the length of the queue leaves a flush signal pending when it
\* returns.  So the queries are flushed without waiting for the timer: once
\* the call and the submissions have returned, a worker waiting in its
\* select on a queue of maxBatchSize or more queries has the signal pending.
C28_SetBatchSize ==
    /\ [](cl[Setter].i >= 1 => bins[1].maxBatchSize = cl[Setter].n)
    /\ [](cl[Setter].pc \in {"check", "signal"}
             => bins[1].maxBatchSize = cl[Setter].n)
    /\ [][(/\ cl'[Setter].i > cl[Setter].i
           /\ \/ cl[Setter].pc = "signal"
              \/ /\ bins[1].kind = "rb"
                 /\ cl'[Setter].n < Len(bins[1].queue))
          => bins'[1].flushCh = 1]_vars
    /\ [][(/\ cl[Setter].pc = "check" /\ cl'[Setter].pc # "check"
           /\ cl[Setter].n < Len(bins[1].queue))
          => cl'[Setter].pc = "signal"]_vars
    /\ [](\A b \in BinIds :
            (/\ bins[b].wpc = "select"
             /\ Len(bins[b].queue) >= bins[b].maxBatchSize
             /\ cl[Setter].pc = "set"
             /\ \A c \in DOMAIN q : q[c].pc \notin {"read_max", "trigger"})
            => bins[b].flushCh = 1)

\* C29: a Shutdown that returns the error of its context, the deadline having
\* passed before the worker exited, leaves the shutdown in effect: the latch
\* is never unset, the worker exits only after its final drain has delivered
\* a result to every query enqueued before the latch, and with a fair worker
\* it does exit (unless the process has crashed): a call that returned the
\* error stays returned and an exited worker stays exited, so this is to say
\* that again and again no call has returned the error or the worker has
\* exited.
C29_ShutdownDeadline ==
    /\ [][\A b \in BinIds : Latched(bins[b]) => Latched(bins'[b])]_vars
    /\ [](\A k \in DOMAIN cl :
            cl[k].ret = "ctx error" => Latched(bins[cl[k].i]))
    /\ [](\A b \in BinIds :
            bins[b].wpc = "exited" =>
               \A c \in bins[b].preLatch :
                  \E n \in 1..Len(bins[b].delivLog) : bins[b].delivLog[n] = c)
    /\ []<>(\/ \A k \in DOMAIN cl : cl[k].ret # "ctx error"
            \/ bins[1].wpc = "exited"
            \/ panicked # "none")

\* C29, its case: Shutdown has returned the error of its context and the
\* worker, in its shutdown branch, is in the downstream call of the final
\* drain.
C29_Witness ==
    \E k \in DOMAIN cl : \E b \in BinIds :
       /\ cl[k].pc = "done"
       /\ cl[k].ret = "ctx error"
       /\ cl[k].i = b
       /\ bins[b].wpc = "call"
       /\ bins[b].trig = "shutdown"
       /\ Len(bins[b].batch) >= 1

\* C30: shutdown takes priority in the worker's loop: a worker in its select
\* that finds the shutdown channel closed takes the shutdown branch, also
\* when a flush signal or an expiry of the timer is pending.
C30_ShutdownPriority ==
    [][\A b \in BinIds :
          (/\ bins[b].wpc = "select"
           /\ bins[b].shutdownCh = "closed"
           /\ bins'[b].wpc # "select")
          => bins'[b].trig = "shutdown"]_vars

\* C31: in the Bin of internal/durable_layered_index, the step that brings
\* the worker back to its select after a flush (by signal or by timer) leaves
\* the timer armed, started with maxWaitTime as it is then; and the step that
\* takes the flush case leaves no expiry pending, so that none is left when
\* the timer is reset.
C31_TimerReset ==
    [][\A b \in BinIds :
          bins[b].kind = "index" =>
             /\ (bins[b].wpc # "select" /\ bins'[b].wpc = "select")
                   => /\ bins'[b].timer = "armed"
                      /\ bins'[b].armedFor = {bins'[b].maxWaitTime}
             /\ (bins[b].wpc = "select" /\ bins'[b].trig = "flush")
                   => bins'[b].timer = "stopped"
             /\ (bins[b].trig = "flush" /\ bins[b].wpc # "select")
                   => bins[b].timer = "stopped"]_vars

\* A worker that is back at its select after it delivered a batch, its timer
\* started with the duration a SetWaitTime has set.
C31_Witness ==
    /\ bins[1].kind = "index"
    /\ bins[1].wpc = "select"
    /\ bins[1].timer = "armed"
    /\ bins[1].maxWaitTime # DefaultWaitTime
    /\ bins[1].armedFor = {bins[1].maxWaitTime}
    /\ Len(bins[1].delivLog) > 0

\* C32: a flush that finds the queue empty (either Bin) does nothing: the
\* worker's step out of processBatch goes back to the select or, in the
\* shutdown case, exits, without a downstream call; no result channel
\* changes, nothing is logged as delivered, no flush is in progress after it
\* and the queue is still empty.
C32_EmptyFlushNoOp ==
    [][\A b \in BinIds :
          (/\ bins[b].wpc = "process"
           /\ Len(bins[b].queue) = 0
           /\ bins'[b].wpc # "process")
             => /\ bins'[b].wpc \in {"select", "exited"}
                /\ bins'[b].queue = <<>>
                /\ bins'[b].flushing = bins[b].flushing
                /\ bins'[b].delivLog = bins[b].delivLog
                /\ q' = q]_vars

\* The worker has received a flush signal that outlived the batch it was
\* sent for (already delivered) and is about to take an empty queue.
C32_Witness ==
    /\ bins[1].wpc = "process"
    /\ bins[1].trig = "flush"
    /\ Len(bins[1].queue) = 0
    /\ Len(bins[1].delivLog) > 0

\* C33: the flush channel of a bin (either Bin) never holds more than one
\* signal; a signalling step of a submitter or of a SetBatchSize / SetWaitTime
\* caller that finds a signal pending changes no bin; and whoever is at its
\* signalling step can take it in every reachable state, whatever the worker
\* is doing (the downstream call included).
C33_SignalCoalesces ==
    /\ [](\A b \in BinIds : bins[b].flushCh <= FlushChCap)
    /\ [][/\ \A c \in Callers :
                (/\ q[c].pc \in {"trigger", "trigger_rl"}
                 /\ q'[c].pc \notin {"trigger", "trigger_rl"}
                 /\ bins[q[c].binIdx].flushCh = FlushChCap) => bins' = bins
          /\ \A k \in DOMAIN cl :
                (/\ cl[k].pc \in {"signal", "wait_signal"}
                 /\ cl'[k].pc \notin {"signal", "wait_signal"}
                 /\ bins[1].flushCh = FlushChCap) => bins' = bins]_vars
    /\ [](/\ \A c \in Callers :
                q[c].pc \in {"trigger", "trigger_rl"}
                   => ENABLED AddQuery_triggerFlush(c)
          /\ \A k \in DOMAIN cl :
                /\ cl[k].pc = "signal" => ENABLED Index_SetBatchSize_signal
                /\ cl[k].pc = "wait_signal" => ENABLED Index_SetWaitTime_signal
                /\ (cl[k].pc = "set" /\ cl[k].i < MaxSetCalls
                       /\ bins[1].kind = "rb")
                      => \A size \in 1..MaxBatchInput :
                            ENABLED SetBatchSize(size))

\* A signal is pending, the worker is inside the downstream call, and both a
\* submitter and the caller of SetWaitTime are about to signal.
C33_Witness ==
    /\ bins[1].flushCh = FlushChCap
    /\ bins[1].wpc = "call"
    /\ \E c \in Callers : q[c].pc = "trigger"
    /\ cl[Setter].pc = "wait_signal"

\* C34: of the queries a bin has accepted, each is in exactly one place,
\* once: among the deliveries of the batches flushed, in the batch the worker
\* holds, or in the queue; and the deliveries, the rest of the batch held
\* and the queue, one after the other, are the appends in their order, so a
\* swap takes every query accepted before it, none twice and none into two
\* batches, however AddQuery and processBatch interleave.
C34_SwapAtomic ==
    \A b \in BinIds :
       bins[b].traced =>
          LET places == bins[b].delivLog \o Undelivered(bins[b])
                            \o bins[b].queue
          IN /\ places = bins[b].enqLog
             /\ \A c \in Callers :
                   (\E j \in 1..Len(bins[b].enqLog) : bins[b].enqLog[j] = c)
                   => Cardinality({j \in 1..Len(places) : places[j] = c}) = 1
             /\ bins[b].wpc \in {"select", "process", "exited"}
                   => bins[b].batch = <<>>

\* The worker of an index Bin has flushed one batch to its end and holds a
\* second one, and a query that was appended after that swap is in the queue.
C34_Witness ==
    /\ bins[1].kind = "index"
    /\ Len(bins[1].delivLog) >= 1
    /\ bins[1].wpc = "call"
    /\ Len(bins[1].queue) = 1

\* C35: when the downstream call returned without an error, the delivery
\* step for position i of the batch (either Bin) puts into the channel of the
\* query at that position results[i], which is the result for that query's
\* own text, if there is a results[i], and otherwise the error "no result
\* returned for query"; no position is passed over: the loop moves one
\* position on with each delivery.
C35_PositionalResults ==
    [][\A b \in BinIds :
          (/\ bins[b].wpc = "deliver"
           /\ ~bins[b].err
           /\ bins'[b] # bins[b]
           /\ bins'[b].queue = bins[b].queue
           /\ bins'[b].flushCh = bins[b].flushCh
           /\ bins'[b].shutdown = bins[b].shutdown
           /\ bins'[b].shutdownCh = bins[b].shutdownCh)
             => LET i == bins[b].i
                    id == bins[b].batch[i]
                IN /\ i \in 1..Len(bins[b].batch)
                   /\ IF i <= Len(bins[b].results)
                      THEN /\ q'[id].ResultCh = <<bins[b].results[i]>>
                           /\ bins[b].results[i].of = id
                           /\ bins[b].results[i].kind
                                 \in {"answer", "ERROR calling Gemini"}
                      ELSE q'[id].ResultCh = <<MissingResult(id)>>
                   /\ \/ bins'[b].wpc = "deliver" /\ bins'[b].i = i + 1
                      \/ bins'[b].wpc # "deliver" /\ i = Len(bins[b].batch)]_vars

\* A batch of two for which the downstream returned one result: the first
\* query holds its answer, the second the error for the missing result.
C35_Witness ==
    \E c, d \in Callers :
       /\ c # d
       /\ bins[1].delivLog = <<c, d>>
       /\ q[c].ResultCh = <<Answer(c)>>
       /\ q[d].ResultCh = <<MissingResult(d)>>

\* C36: a batch that the worker holds for the downstream call (either Bin)
\* has at most maxBatchSize queries.  (Nothing writes maxBatchSize here, so
\* the value is the one in force when the batch was taken.)
C36_BatchWithinMax ==
    \A b \in BinIds :
       bins[b].wpc = "call" => Len(bins[b].batch) <= bins[b].maxBatchSize

\* C37: every step that appends a bin to the router's table appends a
\* representative whose cosine similarity to the representative of every bin
\* already in the table is below groupingThreshold; so two queries with the
\* same embedding never get a bin each.
C37_NoSimilarBinAtAppend ==
    [][Len(bins') = Len(bins) + 1
          => \A j \in 1..Len(binVectors) :
                cosineSimilarity(binVectors'[Len(binVectors')], binVectors[j])
                   < groupingThreshold]_vars

\* C38: at every step in which a call of Bin.Shutdown (either Bin) returns
\* nil, the bin's worker has exited and the bin's queue is empty.
C38_ShutdownNilMeansDrained ==
    [][\A k \in DOMAIN cl :
          (cl[k].pc # "done" /\ cl'[k].pc = "done" /\ cl'[k].ret = "nil")
             => /\ bins'[cl[k].i].wpc = "exited"
                /\ bins'[cl[k].i].queue = <<>>]_vars

\* C39: every step of a SetWaitTime call (either Bin) leaves the bin as it
\* was but for maxWaitTime: the queue keeps its queries, no flush signal
\* appears, so the cases of the worker's select that are ready are the same
\* before and after, and no result channel changes.
C39_SetWaitTimeFrame ==
    [][(cl'[Setter] # cl[Setter] /\ cl'[Setter].ret = "SetWaitTime")
          => /\ [bins'[1] EXCEPT !.maxWaitTime = 0, !.waitSeen = {}]
                   = [bins[1] EXCEPT !.maxWaitTime = 0, !.waitSeen = {}]
             /\ bins'[1].queue = bins[1].queue
             /\ ReadyTriggers(bins'[1]) = ReadyTriggers(bins[1])
             /\ q' = q]_vars

\* C40: in every reachable state of the router with its callers of Query,
\* GetStats, Close, SetBatchSize and SetWaitTime and its bins' workers, no
\* task waits, directly or through others, for itself: the wait-for relation
\* over dli.mu, the bins' b.mu and the wait for a worker's exit has no cycle;
\* no bin mutex is held while a caller asks for dli.mu; and a task whose lock
\* nobody holds takes its step.
C40_DeadlockFree ==
    /\ \A t \in Tasks : t \notin WaitClosure(Blockers(t))
    /\ \A c \in Callers :
          q[c].pc \in {"lock_wait", "add_rl"}
             => \A b \in BinIds : ~MuLocked(bins[b])
    /\ \A c \in Callers :
          Blockers(<<"q", c>>) = {} =>
             /\ q[c].pc = "lock_wait" => ENABLED addBinWithVector_locked(c)
             /\ q[c].pc = "add_rl" => ENABLED addQueryToBin_RLock(c)
             /\ q[c].pc = "rl_add" => ENABLED Lock_AddQuery(c)
    /\ \A k \in Closers : cl[k].pc = "wait" => ENABLED Shutdown_wait(k)

\* A caller holds the read lock for its AddQuery, a second caller waits for
\* the write lock behind it, and Close waits for the exit of a worker.
C40_Witness ==
    /\ \E c, d \in Callers :
          /\ q[c].pc \in {"rl_add", "trigger_rl"}
          /\ q[d].pc = "lock_wait"
          /\ Blockers(<<"q", d>>) = {<<"q", c>>}
    /\ \E k \in Closers : Blockers(<<"cl", k>>) # {}

=============================================================================
